---- MODULE Spec2Model ----
(***************************************************************************)
(* A model of the orchestra image engine of dilib: the seeded random       *)
(* source, the ImageBuffer pixel store, the noise, value-noise, invert and *)
(* resize nodes, and the Pipeline executor.                                *)
(*                                                                         *)
(* Numbers.  A 32-bit word is the pair <<hi, lo>> of its 16-bit halves,    *)
(* because the integers of TLC are themselves 32 bits wide.  A pixel       *)
(* channel handed to toByte / toFloat is a rational num/den.  A value of   *)
(* a Float32Array is the integer numerator of a fraction over FloatDen;    *)
(* the float32 rounding of channel/255 (relative error below 2^-24) never  *)
(* moves round(f*255) and is left out.                                     *)
(*                                                                         *)
(* Specifications.  Spec runs the Pipeline; SpecBuf calls the ImageBuffer  *)
(* operations on a heap of buffers; SpecNode applies the built-in nodes    *)
(* (fill, rect, circle, invert, noise, value-noise, convolution, gaussian  *)
(* blur, alpha and contrast stroke, selection crop, masked nodes) one      *)
(* after another to the image of a state, every buffer a node allocates    *)
(* being an object of heap and last.target the object the node returned;   *)
(* SpecCall draws one call of a function with its arguments into last and  *)
(* answers it by filling last.result; SpecMap follows the run functions    *)
(* started inside one run of a pipeline that holds a mask-map node;        *)
(* SpecState keeps the NodeState objects of one run as objects of heap,    *)
(* pc being "input" while the loop is at its head; SpecAdd runs the        *)
(* Pipeline as Spec does while Pipeline.add is called beside the runs.     *)
(***************************************************************************)
EXTENDS Integers, Sequences, FiniteSets, TLC

VARIABLES
  \* the Pipeline object and the runs of it
  nodes,      \* Pipeline.nodes
  rngs,       \* the state of each SeededRandom object: 0 is the caller's, r is run r's
  pc,         \* where each run is: idle, input, node, io, resolved, done, failed
  inputs,     \* the input each run was given
  opts,       \* the options each run was given
  ctx,        \* each run's NodeContext: its random object and its stash
  states,     \* each run's local variable state
  idx,        \* the position of each run's iterator over Pipeline.nodes
  pending,    \* the settlement of the promise each run awaits
  resolved,   \* what each runState call resolved with, if it did
  outcome,    \* what each run call gave its caller
  log,        \* each run's node calls and merges, in order
  overlapped, \* whether a run was started while another was in flight
  acts,       \* the calls of node run functions made inside a run, in order of start
  \* the ImageBuffer objects of the buffer operations
  heap,       \* the ImageBuffer objects that exist, in order of construction
  made,       \* for each of them, its width, height, format and data length when made
  last,       \* the last ImageBuffer operation called, its arguments and its outcome
  ops         \* the number of ImageBuffer operations called so far

pipeVars ==
  << nodes, rngs, pc, inputs, opts, ctx, states, idx, pending, resolved, outcome,
     log, overlapped, acts >>

bufVars == << heap, made, last, ops >>

vars == << pipeVars, bufVars >>

(***************************************************************************)
(* 32-bit integer arithmetic (Math.imul, ^, |, >>>, + modulo 2^32).        *)
(***************************************************************************)
Half == 65536

RECURSIVE Xor16(_, _)
Xor16(a, b) ==
  IF a = 0 THEN b
  ELSE IF b = 0 THEN a
  ELSE (((a % 2) + (b % 2)) % 2) + 2 * Xor16(a \div 2, b \div 2)

RECURSIVE Or16(_, _)
Or16(a, b) ==
  IF a = 0 THEN b
  ELSE IF b = 0 THEN a
  ELSE (IF a % 2 = 1 \/ b % 2 = 1 THEN 1 ELSE 0) + 2 * Or16(a \div 2, b \div 2)

Xor32(a, b) == << Xor16(a[1], b[1]), Xor16(a[2], b[2]) >>

Or32(a, b) == << Or16(a[1], b[1]), Or16(a[2], b[2]) >>

RECURSIVE Pow2(_)
Pow2(n) == IF n = 0 THEN 1 ELSE 2 * Pow2(n - 1)

\* a >>> n for 0 < n <= 16
Shr32(a, n) ==
  << a[1] \div Pow2(n), (a[1] % Pow2(n)) * Pow2(16 - n) + a[2] \div Pow2(n) >>

Add32(a, b) ==
  LET lo == a[2] + b[2]
      hi == a[1] + b[1] + lo \div Half
  IN  << hi % Half, lo % Half >>

\* (a * b) mod 2^16 for 16-bit a, b, without leaving 32 bits
MulLo16(a, b) == ((a % 256) * b + (((a \div 256) * b) % 256) * 256) % Half

\* the full 32-bit product of two 16-bit numbers
Mul16(a, b) ==
  LET p0 == (a % 256) * b
      p1 == (a \div 256) * b
      s  == p0 + (p1 % 256) * 256
  IN  << (s \div Half + p1 \div 256) % Half, s % Half >>

\* Math.imul(a, b): the low 32 bits of the product
Imul(a, b) ==
  LET ll == Mul16(a[2], b[2])
  IN  << (ll[1] + MulLo16(a[1], b[2]) + MulLo16(a[2], b[1])) % Half, ll[2] >>

Word(n) == << n \div Half, n % Half >>

(***************************************************************************)
(* SeededRandom, createRandom, hashSeed.                                   *)
(***************************************************************************)
\* String(seed) for a non-negative integer seed, as character codes
RECURSIVE DecimalChars(_)
DecimalChars(n) ==
  IF n < 10 THEN << 48 + n >>
  ELSE Append(DecimalChars(n \div 10), 48 + (n % 10))

FnvOffset == << 33052, 40389 >>

FnvPrime == << 256, 403 >>

RECURSIVE HashFold(_, _, _)
HashFold(hash, text, i) ==
  IF i > Len(text) THEN hash
  ELSE HashFold(Imul(Xor32(hash, << 0, text[i] >>), FnvPrime), text, i + 1)

hashSeed(seed) == HashFold(FnvOffset, DecimalChars(seed), 1)

\* new SeededRandom(seed): this.state = seed >>> 0
SeededRandomNew(seed) == seed

\* An optional value (options.seed, options.random) is a sequence of length 0 or 1.
None == << >>

Some(v) == << v >>

\* a generator seeded from the clock whatever the seed
createRandomClock(seed, now) == SeededRandomNew(hashSeed(now))

\* createRandom(seed): the clock is read only when no seed is given
createRandom(seed, now) ==
  IF seed = None THEN SeededRandomNew(hashSeed(now))
  ELSE SeededRandomNew(hashSeed(seed[1]))

Mulberry == << 27947, 31221 >>

\* SeededRandom.next(): the new state and the 32-bit numerator of the result
\* (the result is word / 2^32).  The state is kept modulo 2^32: only its low
\* 32 bits are ever read.
\* t = Math.imul(s ^ (s >>> 15), s | 1)
Mix15(s) == Imul(Xor32(s, Shr32(s, 15)), Or32(s, << 0, 1 >>))

\* t ^= t + Math.imul(t ^ (t >>> 7), t | 61)
Mix7(t) == Xor32(t, Add32(t, Imul(Xor32(t, Shr32(t, 7)), Or32(t, << 0, 61 >>))))

\* (t ^ (t >>> 14)) >>> 0
Mix14(t) == Xor32(t, Shr32(t, 14))

RandomAt(s) == [state |-> s, word |-> Mix14(Mix7(Mix15(s)))]

RandomNext(state) == RandomAt(Add32(state, Mulberry))

Min(a, b) == IF a < b THEN a ELSE b

Max(a, b) == IF a > b THEN a ELSE b

\* floor(word / 2^32 * n) for 0 < n <= 2^15
ScaleWord(word, n) == (word[1] * n + (word[2] * n) \div Half) \div Half

\* SeededRandom.nextInt(min, max): the new state and the integer drawn
\* Math.floor(next() * (high - low + 1)) + low
IntOf(nx, low, high) ==
  [state |-> nx.state, value |-> ScaleWord(nx.word, high - low + 1) + low]

RandomNextInt(state, min, max) ==
  IntOf(RandomNext(state), Min(min, max), Max(min, max))

(***************************************************************************)
(* ImageBuffer: formats, toByte / toFloat, the constructor, getPixel,      *)
(* setPixel, fill, mapPixels, toFormat, clone.                             *)
(***************************************************************************)
Formats == {"rgba8", "rgb8", "gray8", "rgba32f"}

FORMAT_CHANNELS(format) ==
  CASE format = "rgba8"   -> 4
    [] format = "rgb8"    -> 3
    [] format = "gray8"   -> 1
    [] format = "rgba32f" -> 4

ByteMax == 255

\* A Float32Array element f is held as the integer f * FloatDen.
FloatDen == 2 * ByteMax

clamp(value, min, max) == Max(min, Min(max, value))

\* Math.round of num/den, den > 0: the nearest integer, ties upwards
Round(num, den) == (2 * num + den) \div (2 * den)

\* toByte(num/den): a value <= 1 is taken as normalized and scaled by 255
toByte(num, den) ==
  LET scaled == IF num <= den THEN num * ByteMax ELSE num
  IN  clamp(Round(scaled, den), 0, ByteMax)

\* a scaling by 256 instead of 255
toFloatBy256(value) ==
  IF value > 1 THEN clamp((value * FloatDen) \div 256, 0, FloatDen)
  ELSE clamp(value * FloatDen, 0, FloatDen)

\* toFloat(value) for an integer value: value / 255 when value > 1
toFloat(value) ==
  IF value > 1 THEN clamp(value * 2, 0, FloatDen)
  ELSE clamp(value * FloatDen, 0, FloatDen)

Zeros(n) == [i \in 1 .. n |-> 0]

\* a constructor that takes the array as given
ImageBufferUnchecked(width, height, format, data) ==
  [ok |-> TRUE,
   buf |-> [width |-> width, height |-> height, format |-> format,
            data |-> IF data = None
                     THEN Zeros(width * height * FORMAT_CHANNELS(format))
                     ELSE data[1]]]

\* new ImageBuffer(width, height, format, data?): data is None or Some(array).
\* The result is the buffer, or the error thrown.
ImageBuffer(width, height, format, data) ==
  LET length == width * height * FORMAT_CHANNELS(format)
  IN  IF data # None /\ Len(data[1]) # length
      THEN [ok |-> FALSE, error |-> "SizeMismatch"]
      ELSE [ok |-> TRUE,
            buf |-> [width |-> width, height |-> height, format |-> format,
                     data |-> IF data = None THEN Zeros(length) ELSE data[1]]]

\* assertInside
Inside(image, x, y) ==
  ~(x < 0 \/ y < 0 \/ x >= image.width \/ y >= image.height)

\* the index of channel 0 of pixel (x, y), counted from 1
PixelIndex(image, x, y) ==
  (y * image.width + x) * FORMAT_CHANNELS(image.format) + 1

\* getPixel(x, y) for (x, y) inside the image
getPixel(image, x, y) ==
  LET index == PixelIndex(image, x, y)
      data  == image.data
  IN  CASE image.format = "gray8" ->
             [r |-> data[index], g |-> data[index], b |-> data[index], a |-> ByteMax]
        [] image.format = "rgb8" ->
             [r |-> data[index], g |-> data[index + 1], b |-> data[index + 2],
              a |-> ByteMax]
        [] image.format = "rgba32f" ->
             [r |-> toByte(data[index], FloatDen),
              g |-> toByte(data[index + 1], FloatDen),
              b |-> toByte(data[index + 2], FloatDen),
              a |-> toByte(data[index + 3], FloatDen)]
        [] image.format = "rgba8" ->
             [r |-> data[index], g |-> data[index + 1], b |-> data[index + 2],
              a |-> data[index + 3]]

\* pixel.a ?? 255
AlphaOf(pixel) == IF "a" \in DOMAIN pixel THEN pixel.a ELSE ByteMax

\* setPixel(x, y, pixel) for (x, y) inside the image: the image afterwards
setPixel(image, x, y, pixel) ==
  LET index == PixelIndex(image, x, y)
      a     == AlphaOf(pixel)
      data  == image.data
  IN  CASE image.format = "gray8" ->
             [image EXCEPT !.data =
                [data EXCEPT ![index] = toByte(pixel.r + pixel.g + pixel.b, 3)]]
        [] image.format = "rgb8" ->
             [image EXCEPT !.data =
                [data EXCEPT ![index] = toByte(pixel.r, 1),
                             ![index + 1] = toByte(pixel.g, 1),
                             ![index + 2] = toByte(pixel.b, 1)]]
        [] image.format = "rgba32f" ->
             [image EXCEPT !.data =
                [data EXCEPT ![index] = toFloat(pixel.r),
                             ![index + 1] = toFloat(pixel.g),
                             ![index + 2] = toFloat(pixel.b),
                             ![index + 3] = toFloat(a)]]
        [] image.format = "rgba8" ->
             [image EXCEPT !.data =
                [data EXCEPT ![index] = toByte(pixel.r, 1),
                             ![index + 1] = toByte(pixel.g, 1),
                             ![index + 2] = toByte(pixel.b, 1),
                             ![index + 3] = toByte(a, 1)]]

\* The loops "for y, for x" visit pixel k = y * width + x in the order k = 0, 1, ...
RECURSIVE FillFrom(_, _, _)
FillFrom(image, pixel, k) ==
  IF k >= image.width * image.height THEN image
  ELSE FillFrom(setPixel(image, k % image.width, k \div image.width, pixel), pixel, k + 1)

\* fill(pixel): the image afterwards
fill(image, pixel) == FillFrom(image, pixel, 0)

\* ImageBuffer.create(width, height, format, fill?)
create(width, height, format, fillPixel) ==
  LET image == ImageBuffer(width, height, format, None).buf
  IN  IF fillPixel # None THEN fill(image, fillPixel[1]) ELSE image

\* clone(): a copy of the data handed to the constructor
clone(image) ==
  ImageBuffer(image.width, image.height, image.format, Some(image.data)).buf

IdentityMapper(pixel, x, y) == pixel

\* the mapper of createInvertNode
InvertMapper(pixel, x, y) ==
  [r |-> ByteMax - pixel.r, g |-> ByteMax - pixel.g, b |-> ByteMax - pixel.b,
   a |-> pixel.a]

\* mapper(current, x, y) for the mappers used: named "identity" and "invert"
CallMapper(mapper, pixel, x, y) ==
  IF mapper = "invert" THEN InvertMapper(pixel, x, y) ELSE IdentityMapper(pixel, x, y)

RECURSIVE MapFrom(_, _, _, _)
MapFrom(image, output, mapper, k) ==
  IF k >= image.width * image.height THEN output
  ELSE MapFrom(image,
               setPixel(output, k % image.width, k \div image.width,
                        CallMapper(mapper,
                                   getPixel(image, k % image.width, k \div image.width),
                                   k % image.width, k \div image.width)),
               mapper, k + 1)

\* mapPixels(mapper): a new buffer of the same size and format
mapPixels(image, mapper) ==
  MapFrom(image, ImageBuffer(image.width, image.height, image.format, None).buf,
          mapper, 0)

\* toFormat(format): a clone, or a re-encoding through getPixel / setPixel
toFormat(image, format) ==
  IF format = image.format THEN clone(image)
  ELSE MapFrom(image, ImageBuffer(image.width, image.height, format, None).buf,
               "identity", 0)

(***************************************************************************)
(* hash2D and the value-noise node at scale 1, one octave, min 0, max 255. *)
(***************************************************************************)
HashX == << 5718, 26545 >>

HashY == << 10196, 60207 >>

HashSeed == << 2207, 26925 >>

HashMix == << 19441, 40801 >>

\* hash2D(x, y, seed): the 32-bit numerator n of the result n / 4294967295
\* n = (n ^ (n >>> 13)) * 1274126177
Mix13(n) == Imul(Xor32(n, Shr32(n, 13)), HashMix)

\* (n ^ (n >>> 16)) >>> 0
Mix16(n) == Xor32(n, Shr32(n, 16))

hash2D(x, y, seed) ==
  Mix16(Mix13(Add32(Add32(Imul(Word(x), HashX), Imul(Word(y), HashY)),
                    Imul(Word(seed), HashSeed))))

\* 257 * (2k - 1) * 65537 <= 2n, that is k - 1/2 <= n / 16843009
AtLeastHalf(k, n) ==
  LET m    == 257 * (2 * k - 1)
      topL == m + m \div Half
      lowL == m % Half
      topR == 2 * n[1] + (2 * n[2]) \div Half
      lowR == (2 * n[2]) % Half
  IN  topL < topR \/ (topL = topR /\ lowL <= lowR)

\* Math.round(0 + (255 - 0) * (n / 4294967295)): 4294967295 = 255 * 16843009
MapUnit(n) == Cardinality({k \in 1 .. ByteMax : AtLeastHalf(k, n)})

\* fractalValueNoise(x, y, seed, 1, 1, ...): at cell size 1 every pixel is a
\* lattice point, tx = ty = 0, and the interpolation returns the corner value.
fractalValueNoise(x, y, seed) == hash2D(x, y, seed)

\* ensureSeed(context): the seed, and the random state and stash afterwards;
\* nextInt(0, 0x7fffffff) is floor(word / 2^32 * 2^31) = word >>> 1
Seeded(seed, rng) == [seed |-> seed, rng |-> rng, stash |-> Some(seed)]

SeedOf(nx) == Seeded(nx.word[1] * 32768 + nx.word[2] \div 2, nx.state)

\* a seed drawn at every call, the stash not read
ensureSeedDrawn(rng, stash) == SeedOf(RandomNext(rng))

ensureSeed(rng, stash) ==
  IF stash # None
  THEN [seed |-> stash[1], rng |-> rng, stash |-> stash]
  ELSE SeedOf(RandomNext(rng))

\* the pixel loop of createValueNoiseNode: four array elements per pixel
\* data[i] = v on a typed array: a write past the end is dropped
Put(data, i, v) == IF i \in DOMAIN data THEN [data EXCEPT ![i] = v] ELSE data

PutGray(data, index, mapped, alpha) ==
  Put(Put(Put(Put(data, index, mapped), index + 1, mapped), index + 2, mapped),
      index + 3, alpha)

\* the element that holds the number v: a Float32Array element is modelled
\* by its numerator over FloatDen
Stored(format, v) == IF format = "rgba32f" THEN v * FloatDen ELSE v

RECURSIVE ValueNoiseFrom(_, _, _)
ValueNoiseFrom(output, seed, k) ==
  IF k >= output.width * output.height THEN output
  ELSE ValueNoiseFrom(
         [output EXCEPT !.data =
            PutGray(output.data, 4 * k + 1,
                    Stored(output.format,
                           MapUnit(fractalValueNoise(k % output.width,
                                                     k \div output.width, seed))),
                    Stored(output.format, ByteMax))],
         seed, k + 1)

\* the pixel loop of createNoiseNode (grayscale, min 0, max 255, alpha 255):
\* mapPixels with one draw per pixel
GrayPixel(r) == [r |-> r, g |-> r, b |-> r, a |-> ByteMax]

RECURSIVE NoiseFrom(_, _, _, _)
RECURSIVE NoiseDrawn(_, _, _, _)
NoiseDrawn(image, output, draw, k) ==
  NoiseFrom(image,
            setPixel(output, k % image.width, k \div image.width, GrayPixel(draw.value)),
            draw.state, k + 1)

NoiseFrom(image, output, rng, k) ==
  IF k >= image.width * image.height THEN [image |-> output, rng |-> rng]
  ELSE NoiseDrawn(image, output, RandomNextInt(rng, 0, ByteMax), k)

(***************************************************************************)
(* NodeState, getImage, mergeNodeState, the nodes.                         *)
(***************************************************************************)
DEFAULT_IMAGE_KEY == "image"

EmptyMap == << >>

\* { ...a, ...b }
Spread(a, b) ==
  [k \in DOMAIN a \cup DOMAIN b |-> IF k \in DOMAIN b THEN b[k] ELSE a[k]]

\* a merge that keeps the state's entry when both have the key
mergeFirstWins(state, result) ==
  [images |-> Spread(result.images, state.images),
   data   |-> Spread(result.data, state.data)]

\* mergeNodeState(state, result); a result's absent map is the empty map
mergeNodeState(state, result) ==
  [images |-> Spread(state.images, result.images),
   data   |-> Spread(state.data, result.data)]

NoImage == [width |-> 0, height |-> 0, format |-> "rgba8", data |-> << >>]

EmptyState == [images |-> EmptyMap, data |-> EmptyMap]

EmptyResult == [images |-> EmptyMap, data |-> EmptyMap]

\* a getImage that always reads the default key
getImageDefault(state, key) ==
  IF DEFAULT_IMAGE_KEY \in DOMAIN state.images
  THEN [ok |-> TRUE, image |-> state.images[DEFAULT_IMAGE_KEY], error |-> "none"]
  ELSE [ok |-> FALSE, image |-> NoImage, error |-> "MissingInput"]

\* getImage(state, key): the image, or the error thrown
getImage(state, key) ==
  IF key \in DOMAIN state.images
  THEN [ok |-> TRUE, image |-> state.images[key], error |-> "none"]
  ELSE [ok |-> FALSE, image |-> NoImage, error |-> "MissingInput"]

\* A node: its kind, the keys it declares (none for a bare defineNode) and the
\* keys its run function reads and writes.
ImageNode(kind, input, output) ==
  [kind |-> kind, inputs |-> << input >>, outputs |-> << output >>,
   input |-> input, output |-> output]

\* createNoiseNode(), createInvertNode(), createValueNoiseNode({scale: 1}),
\* createResizeNode(w, h) with the size of its input
createNoiseNode == ImageNode("noise", DEFAULT_IMAGE_KEY, DEFAULT_IMAGE_KEY)

createInvertNode == ImageNode("invert", DEFAULT_IMAGE_KEY, DEFAULT_IMAGE_KEY)

createValueNoiseNode == ImageNode("value-noise", DEFAULT_IMAGE_KEY, DEFAULT_IMAGE_KEY)

createResizeNode == ImageNode("resize", DEFAULT_IMAGE_KEY, DEFAULT_IMAGE_KEY)

\* createImageNode('copy', {}, (c, image) => image.clone(), {output: 'aux'})
CopyToAux == ImageNode("copy", DEFAULT_IMAGE_KEY, "aux")

\* createImageNode('invert', {}, image => image.mapPixels(invert), {input: 'aux'})
InvertFromAux == ImageNode("invert", "aux", DEFAULT_IMAGE_KEY)

\* defineNode({name: 'stash-stats', run}): reads the default image, returns data
StashStats ==
  [kind |-> "stats", inputs |-> << >>, outputs |-> << >>,
   input |-> DEFAULT_IMAGE_KEY, output |-> DEFAULT_IMAGE_KEY]

\* the same node with a declared input: defineNode returns the definition it
\* is given, and its run function is the caller's
StashStatsDeclared == [StashStats EXCEPT !.inputs = << "aux" >>]

NodeCatalog ==
  { createNoiseNode, createInvertNode, createValueNoiseNode, createResizeNode,
    CopyToAux, InvertFromAux, StashStats, StashStatsDeclared }

\* the body of an image node on its input image, up to its first suspension:
\* the output (or "io" when it waits for the resize collaborator) and the
\* random state and stash it leaves
Body(status, image, rng, stash) ==
  [status |-> status, image |-> image, rng |-> rng, stash |-> stash]

NoiseBody(res, stash) == Body("ok", res.image, res.rng, stash)

ValueNoiseBody(image, es) ==
  Body("ok", ValueNoiseFrom(clone(image), es.seed, 0), es.rng, es.stash)

NodeBody(node, image, rng, stash) ==
  CASE node.kind = "noise" ->
         NoiseBody(NoiseFrom(image,
                             ImageBuffer(image.width, image.height, image.format, None).buf,
                             rng, 0),
                   stash)
    [] node.kind = "invert" ->
         [status |-> "ok", image |-> mapPixels(image, "invert"),
          rng |-> rng, stash |-> stash]
    [] node.kind = "value-noise" -> ValueNoiseBody(image, ensureSeed(rng, stash))
    [] node.kind = "copy" ->
         [status |-> "ok", image |-> clone(image), rng |-> rng, stash |-> stash]
    [] node.kind = "resize" ->
         [status |-> "io", image |-> toFormat(image, "rgba8"), rng |-> rng,
          stash |-> stash]

\* node.run(context, state, params) up to its first suspension
\* (createImageNode's run, lines 134-138; the stash-stats run of the README)
ImageResult(node, body) ==
  [status |-> body.status, error |-> "none",
   result |-> [images |-> [k \in {node.output} |-> body.image], data |-> EmptyMap],
   rng |-> body.rng, stash |-> body.stash]

RunOn(node, got, rng, stash) ==
  IF ~got.ok
  THEN [status |-> "error", error |-> got.error, result |-> EmptyResult,
        rng |-> rng, stash |-> stash]
  ELSE IF node.kind = "stats"
  THEN [status |-> "ok", error |-> "none",
        result |-> [images |-> EmptyMap,
                    data |-> [k \in {"pixelCount"} |->
                                got.image.width * got.image.height]],
        rng |-> rng, stash |-> stash]
  ELSE ImageResult(node, NodeBody(node, got.image, rng, stash))

RunNode(node, state, rng, stash) ==
  RunOn(node, getImage(state, node.input), rng, stash)

(***************************************************************************)
(* Pipeline.run and Pipeline.runState.  A step is what runs between two    *)
(* suspensions: a call runs to its first await, a resumption to the next.  *)
(***************************************************************************)
MaxNodes == 2

Runs == {1, 2}

SeedSamples == {42, 43}

NowSamples == {7, 8}

\* the caller's image, the image the path source decodes to
CallerImage == ImageBuffer(2, 1, "rgba8", Some(<< 0, 1, 2, 255, 128, 254, 255, 3 >>)).buf

DecodedImage == ImageBuffer(1, 1, "rgba8", Some(<< 200, 100, 50, 255 >>)).buf

BufferInput == [type |-> "buffer", image |-> CallerImage, state |-> EmptyState]

StateInput ==
  [type |-> "state", image |-> NoImage,
   state |-> [images |-> [k \in {"aux"} |-> CallerImage],
              data |-> [k \in {"note"} |-> 1]]]

PathInput == [type |-> "path", image |-> NoImage, state |-> EmptyState]

\* options: seed and random are optional; random names a SeededRandom object
Seed(v) == [seed |-> Some(v), random |-> None]

NoOptions == [seed |-> None, random |-> None]

SharedRandom == [seed |-> None, random |-> Some(0)]

\* the calls made: an input and the options given with it
CallSamples ==
  {[input |-> BufferInput, options |-> o] :
     o \in {Seed(v) : v \in SeedSamples} \cup {NoOptions, SharedRandom}}
    \cup {[input |-> StateInput, options |-> Seed(42)],
          [input |-> PathInput, options |-> Seed(43)]}

\* normalizeInput(input, data) once the image of a source is loaded
normalizeInput(in, loaded, data) ==
  IF in.type = "state"
  THEN [images |-> Spread(EmptyMap, in.state.images),
        data |-> Spread(in.state.data, data)]
  ELSE [images |-> [k \in {DEFAULT_IMAGE_KEY} |->
                      IF in.type = "buffer" THEN in.image ELSE loaded],
        data |-> Spread(EmptyMap, data)]

NoPending == [status |-> "none", result |-> EmptyResult, error |-> "none"]

NoOutcome == [status |-> "none", image |-> NoImage, error |-> "none"]

Event(ev, node, st, result) ==
  [ev |-> ev, node |-> node, state |-> st, result |-> result]

\* a loop that keeps the state it had
LoopStateKept(st, result) == st

\* state = mergeNodeState(state, result)
LoopState(st, result) == mergeNodeState(st, result)

\* The head of the loop "for (const node of this.nodes)" with the iterator at
\* position i: the loop ends, or node i is called and runs to its first await.
\* a call whose rejection is taken as an empty result
CalledIgnoringError(out, st, i) ==
  [pc |-> IF out.status = "io" THEN "io" ELSE "node",
   pending |-> [status |-> IF out.status = "error" THEN "ok" ELSE out.status,
                result |-> out.result, error |-> "none"],
   rng |-> out.rng, stash |-> out.stash,
   events |-> << Event("run", i, st, EmptyResult) >>]

\* result = await node.run(context, state, node.params), up to the suspension
Called(out, st, i) ==
  [pc |-> IF out.status = "io" THEN "io" ELSE "node",
   pending |-> [status |-> out.status, result |-> out.result, error |-> out.error],
   rng |-> out.rng, stash |-> out.stash,
   events |-> << Event("run", i, st, EmptyResult) >>]

LoopHead(st, i, rng, stash) ==
  IF i > Len(nodes)
  THEN [pc |-> "resolved", pending |-> NoPending, rng |-> rng, stash |-> stash,
        events |-> << >>]
  ELSE Called(RunNode(nodes[i], st, rng, stash), st, i)

\* one random object for every run
ContextRandomShared(r, o) == 0

\* the random object a run's context refers to
\* (options.random ?? createRandom(options.seed))

ContextRandom(r, o) == IF o.random # None THEN o.random[1] ELSE r

InFlight(q) == pc[q] \in {"input", "node", "io", "resolved"}

\* run(input, options): runState builds the context and awaits normalizeInput
Start(r, call, now) ==
  /\ pc[r] = "idle"
  /\ \A q \in Runs : q < r => pc[q] # "idle"
  /\ pc' = [pc EXCEPT ![r] = "input"]
  /\ inputs' = [inputs EXCEPT ![r] = call.input]
  /\ opts' = [opts EXCEPT ![r] = call.options]
  /\ ctx' = [ctx EXCEPT ![r] =
               [random |-> ContextRandom(r, call.options), stash |-> None]]
  /\ rngs' = IF call.options.random # None THEN rngs
             ELSE [rngs EXCEPT ![ContextRandom(r, call.options)] =
                     createRandom(call.options.seed, now)]
  /\ overlapped' = (overlapped \/ \E q \in Runs \ {r} : InFlight(q))
  /\ UNCHANGED << nodes, states, idx, pending, resolved, outcome, log, acts, bufVars >>

\* the loop head taken by run r with state st and iterator position i
Entered(r, st, i, events, nx) ==
  /\ states' = [states EXCEPT ![r] = st]
  /\ idx' = [idx EXCEPT ![r] = i]
  /\ pc' = [pc EXCEPT ![r] = nx.pc]
  /\ pending' = [pending EXCEPT ![r] = nx.pending]
  /\ rngs' = [rngs EXCEPT ![ctx[r].random] = nx.rng]
  /\ ctx' = [ctx EXCEPT ![r].stash = nx.stash]
  /\ log' = [log EXCEPT ![r] = log[r] \o events \o nx.events]
  /\ resolved' = [resolved EXCEPT ![r] = IF nx.pc = "resolved" THEN Some(st) ELSE None]

EnterLoop(r, st, i, events) ==
  Entered(r, st, i, events, LoopHead(st, i, rngs[ctx[r].random], ctx[r].stash))

\* normalizeInput settles: runState fails, or enters its loop
InputReady(r, load) ==
  /\ pc[r] = "input"
  /\ load = "ok" \/ inputs[r].type = "path"
  /\ IF load # "ok"
     THEN /\ pc' = [pc EXCEPT ![r] = "failed"]
          /\ outcome' = [outcome EXCEPT ![r] =
                           [status |-> "error", image |-> NoImage, error |-> load]]
          /\ UNCHANGED << states, idx, pending, rngs, ctx, log, resolved >>
     ELSE /\ EnterLoop(r, normalizeInput(inputs[r], DecodedImage, EmptyMap), 1, << >>)
          /\ UNCHANGED outcome
  /\ UNCHANGED << nodes, inputs, opts, overlapped, acts, bufVars >>

\* the resize collaborator settles
IoDone(r, ok) ==
  /\ pc[r] = "io"
  /\ pc' = [pc EXCEPT ![r] = "node"]
  /\ pending' = [pending EXCEPT ![r] =
                   IF ok THEN [pending[r] EXCEPT !.status = "ok"]
                   ELSE [status |-> "error", result |-> EmptyResult,
                         error |-> "ResizeError"]]
  /\ UNCHANGED << nodes, rngs, inputs, opts, ctx, states, idx, resolved, outcome,
                  log, overlapped, acts, bufVars >>

\* the loop body after the await, with the merged state
Merged(r, merged) ==
  EnterLoop(r, merged, idx[r] + 1,
            << Event("merge", idx[r], merged, pending[r].result) >>)

\* "await node.run(...)" settles: runState fails, or merges and loops
NodeDone(r) ==
  /\ pc[r] = "node"
  /\ IF pending[r].status = "error"
     THEN /\ pc' = [pc EXCEPT ![r] = "failed"]
          /\ outcome' = [outcome EXCEPT ![r] =
                           [status |-> "error", image |-> NoImage,
                            error |-> pending[r].error]]
          /\ pending' = [pending EXCEPT ![r] = NoPending]
          /\ UNCHANGED << states, idx, rngs, ctx, log, resolved >>
     ELSE /\ Merged(r, LoopState(states[r], pending[r].result))
          /\ UNCHANGED outcome
  /\ UNCHANGED << nodes, inputs, opts, overlapped, acts, bufVars >>

\* an output taken from any key
OutputOfAny(st) ==
  IF DOMAIN st.images = {} THEN None
  ELSE Some(st.images[CHOOSE k \in DOMAIN st.images : TRUE])

\* state.images[DEFAULT_IMAGE_KEY]
OutputOf(st) ==
  IF DEFAULT_IMAGE_KEY \in DOMAIN st.images THEN Some(st.images[DEFAULT_IMAGE_KEY])
  ELSE None

\* if (!output) throw new Error('Missing output image'); return output
Returned(r, output) ==
  IF output = None
  THEN /\ pc' = [pc EXCEPT ![r] = "failed"]
       /\ outcome' = [outcome EXCEPT ![r] =
                        [status |-> "error", image |-> NoImage,
                         error |-> "MissingOutput"]]
  ELSE /\ pc' = [pc EXCEPT ![r] = "done"]
       /\ outcome' = [outcome EXCEPT ![r] =
                        [status |-> "image", image |-> output[1], error |-> "none"]]

\* run resumes with the state runState resolved with
Finish(r) ==
  /\ pc[r] = "resolved"
  /\ Returned(r, OutputOf(resolved[r][1]))
  /\ UNCHANGED << nodes, rngs, inputs, opts, ctx, states, idx, pending, resolved,
                  log, overlapped, acts, bufVars >>

SeqsUpTo(S, n) == UNION {[1 .. k -> S] : k \in 0 .. n}

PipeIdle ==
  /\ rngs = [i \in {0} \cup Runs |-> IF i = 0 THEN createRandom(Some(1), 0) ELSE Word(0)]
  /\ pc = [r \in Runs |-> "idle"]
  /\ inputs = [r \in Runs |-> BufferInput]
  /\ opts = [r \in Runs |-> NoOptions]
  /\ ctx = [r \in Runs |-> [random |-> r, stash |-> None]]
  /\ states = [r \in Runs |-> EmptyState]
  /\ idx = [r \in Runs |-> 0]
  /\ pending = [r \in Runs |-> NoPending]
  /\ resolved = [r \in Runs |-> None]
  /\ outcome = [r \in Runs |-> NoOutcome]
  /\ log = [r \in Runs |-> << >>]
  /\ overlapped = FALSE
  /\ acts = << >>

(***************************************************************************)
(* The ImageBuffer operations as actions on a heap of buffers.             *)
(***************************************************************************)
MaxWidth == 2

MaxHeight == 1

MaxBufs == 2

MaxOps == 2

\* Stored values the caller's arrays are made of: bytes, and floats as
\* numerators over FloatDen (0, 1/510, 1/255, 0.5, just under 1, 1, 2, 128).
ByteSamples == << 1, 2, 1, 0, 255, 128, 3, 254 >>

FloatSamples == << 510, 2, 1, 0, 255, 509, 2 * FloatDen, 128 * FloatDen >>

SampleArray(format, length, shift) ==
  LET samples == IF format = "rgba32f" THEN FloatSamples ELSE ByteSamples
  IN  [i \in 1 .. length |-> samples[((i + shift) % Len(samples)) + 1]]

PixelSamples ==
  { [r |-> 0, g |-> 0, b |-> 0, a |-> 0],
    [r |-> 1, g |-> 1, b |-> 1, a |-> 1],
    [r |-> 1, g |-> 2, b |-> 1, a |-> 255],
    [r |-> 2, g |-> 128, b |-> 254, a |-> 128],
    [r |-> 254, g |-> 3, b |-> 0, a |-> 2],
    [r |-> 255, g |-> 255, b |-> 255, a |-> 255] }

NoPixel == [r |-> 0, g |-> 0, b |-> 0, a |-> 0]

Shape(image) ==
  [width |-> image.width, height |-> image.height, format |-> image.format,
   length |-> Len(image.data)]

NoShape == [width |-> 0, height |-> 0, format |-> "rgba8", length |-> 0]

\* A call: the operation, the heap index of its receiver (of the object made,
\* for a constructor; 0 when nothing was made), the shape asked of a
\* constructor, the coordinates and pixel passed, and the error thrown.
Call(op, target, shape, x, y, pixel, error) ==
  [op |-> op, target |-> target, shape |-> shape, x |-> x, y |-> y,
   pixel |-> pixel, error |-> error]

\* a new object enters the heap
Allocate(image) ==
  /\ heap' = Append(heap, image)
  /\ made' = Append(made, Shape(image))

\* new ImageBuffer(width, height, format, data)
BufNew(width, height, format, data) ==
  /\ ops < MaxOps /\ Len(heap) < MaxBufs
  /\ ops' = ops + 1
  /\ LET res   == ImageBuffer(width, height, format, data)
         asked == [width |-> width, height |-> height, format |-> format,
                   length |-> IF data = None
                              THEN width * height * FORMAT_CHANNELS(format)
                              ELSE Len(data[1])]
     IN  IF res.ok
         THEN /\ Allocate(res.buf)
              /\ last' = Call("new", Len(heap) + 1, asked, 0, 0, NoPixel, "none")
         ELSE /\ UNCHANGED << heap, made >>
              /\ last' = Call("new", 0, asked, 0, 0, NoPixel, res.error)

\* ImageBuffer.create(width, height, format, fill)
BufCreate(width, height, format, fillPixel) ==
  /\ ops < MaxOps /\ Len(heap) < MaxBufs
  /\ ops' = ops + 1
  /\ Allocate(create(width, height, format, fillPixel))
  /\ last' = Call("create", Len(heap) + 1, NoShape, 0, 0,
                  IF fillPixel = None THEN NoPixel ELSE fillPixel[1], "none")

BufClone(i) ==
  /\ ops < MaxOps /\ Len(heap) < MaxBufs
  /\ ops' = ops + 1
  /\ Allocate(clone(heap[i]))
  /\ last' = Call("clone", i, NoShape, 0, 0, NoPixel, "none")

BufGetPixel(i, x, y) ==
  /\ ops < MaxOps
  /\ ops' = ops + 1
  /\ UNCHANGED << heap, made >>
  /\ last' = IF Inside(heap[i], x, y)
             THEN Call("getPixel", i, NoShape, x, y, getPixel(heap[i], x, y), "none")
             ELSE Call("getPixel", i, NoShape, x, y, NoPixel, "OutOfBounds")

BufSetPixel(i, x, y, pixel) ==
  /\ ops < MaxOps
  /\ ops' = ops + 1
  /\ UNCHANGED made
  /\ IF Inside(heap[i], x, y)
     THEN /\ heap' = [heap EXCEPT ![i] = setPixel(heap[i], x, y, pixel)]
          /\ last' = Call("setPixel", i, NoShape, x, y, pixel, "none")
     ELSE /\ UNCHANGED heap
          /\ last' = Call("setPixel", i, NoShape, x, y, pixel, "OutOfBounds")

BufFill(i, pixel) ==
  /\ ops < MaxOps
  /\ ops' = ops + 1
  /\ UNCHANGED made
  /\ heap' = [heap EXCEPT ![i] = fill(heap[i], pixel)]
  /\ last' = Call("fill", i, NoShape, 0, 0, pixel, "none")

BufMapPixels(i, mapper) ==
  /\ ops < MaxOps /\ Len(heap) < MaxBufs
  /\ ops' = ops + 1
  /\ Allocate(mapPixels(heap[i], mapper))
  /\ last' = Call("mapPixels", i, NoShape, 0, 0, NoPixel, "none")

BufToFormat(i, format) ==
  /\ ops < MaxOps /\ Len(heap) < MaxBufs
  /\ ops' = ops + 1
  /\ Allocate(toFormat(heap[i], format))
  /\ last' = Call("toFormat", i, NoShape, 0, 0, NoPixel, "none")

Widths == 0 .. MaxWidth

Heights == 1 .. MaxHeight

Shifts == {0, 2, 5}

BufIdle ==
  /\ heap = << >>
  /\ made = << >>
  /\ last = Call("none", 0, NoShape, 0, 0, NoPixel, "none")
  /\ ops = 0

\* new Pipeline(nodes), and nothing called yet
Init ==
  /\ nodes \in SeqsUpTo(NodeCatalog, MaxNodes)
  /\ PipeIdle
  /\ BufIdle

Next ==
  \/ \E r \in Runs, call \in CallSamples, now \in NowSamples : Start(r, call, now)
  \/ \E r \in Runs, load \in {"ok", "IoError", "DecodeError"} : InputReady(r, load)
  \/ \E r \in Runs, ok \in BOOLEAN : IoDone(r, ok)
  \/ \E r \in Runs : NodeDone(r)
  \/ \E r \in Runs : Finish(r)

Spec == Init /\ [][Next]_vars

BufInit ==
  /\ nodes = << >>
  /\ PipeIdle
  /\ heap = << >>
  /\ made = << >>
  /\ last = Call("none", 0, NoShape, 0, 0, NoPixel, "none")
  /\ ops = 0

BufStep ==
  \/ \E w \in Widths, h \in Heights, f \in Formats, d \in {0, 1}, shift \in Shifts :
       BufNew(w, h, f, Some(SampleArray(f, w * h * FORMAT_CHANNELS(f) + d, shift)))
  \/ \E w \in Widths, h \in Heights, f \in Formats : BufNew(w, h, f, None)
  \/ \E w \in Widths, h \in Heights, f \in Formats,
        p \in {None} \cup {Some(q) : q \in PixelSamples} : BufCreate(w, h, f, p)
  \/ \E i \in 1 .. Len(heap) : BufClone(i)
  \/ \E i \in 1 .. Len(heap), x \in -1 .. MaxWidth, y \in -1 .. MaxHeight :
       BufGetPixel(i, x, y)
  \/ \E i \in 1 .. Len(heap), x \in -1 .. MaxWidth, y \in -1 .. MaxHeight,
        p \in PixelSamples : BufSetPixel(i, x, y, p)
  \/ \E i \in 1 .. Len(heap), p \in PixelSamples : BufFill(i, p)
  \/ \E i \in 1 .. Len(heap), m \in {"identity", "invert"} : BufMapPixels(i, m)
  \/ \E i \in 1 .. Len(heap), f \in Formats : BufToFormat(i, f)

BufNext == BufStep /\ UNCHANGED pipeVars

SpecBuf == BufInit /\ [][BufNext]_vars

(***************************************************************************)
(* Alpha-stroke masks.  Pixel i = y * width + x is element i + 1.         *)
(***************************************************************************)
NEIGHBOR_OFFSETS_4 == << << 1, 0 >>, << -1, 0 >>, << 0, 1 >>, << 0, -1 >> >>

NEIGHBOR_OFFSETS_8 ==
  << << 1, 0 >>, << -1, 0 >>, << 0, 1 >>, << 0, -1 >>,
     << 1, 1 >>, << -1, 1 >>, << 1, -1 >>, << -1, -1 >> >>

\* offsets that are the eight whatever the connectivity
getNeighborOffsetsAll(connectivity) == NEIGHBOR_OFFSETS_8

getNeighborOffsets(connectivity) ==
  IF connectivity = 4 THEN NEIGHBOR_OFFSETS_4 ELSE NEIGHBOR_OFFSETS_8

computeAlphaMask(image, alphaThreshold) ==
  [i \in 1 .. image.width * image.height |->
     IF image.data[(i - 1) * 4 + 4] >= alphaThreshold THEN 1 ELSE 0]

\* (nx, ny) is outside the image
Outside(nx, ny, width, height) == nx < 0 \/ ny < 0 \/ nx >= width \/ ny >= height

\* the loop over the offsets of computeAlphaBoundaryMask at pixel i - 1: some
\* neighbour inside the image is solid
TouchesSolid(solidMask, i, width, height, offsets) ==
  \E n \in 1 .. Len(offsets) :
    /\ ~Outside(((i - 1) % width) + offsets[n][1],
                ((i - 1) \div width) + offsets[n][2], width, height)
    /\ solidMask[(((i - 1) \div width) + offsets[n][2]) * width
                 + ((i - 1) % width) + offsets[n][1] + 1] = 1

computeAlphaBoundaryMask(solidMask, width, height, connectivity) ==
  [i \in 1 .. width * height |->
     IF solidMask[i] = 0
        /\ TouchesSolid(solidMask, i, width, height, getNeighborOffsets(connectivity))
     THEN 1 ELSE 0]

\* a neighbour is taken whatever the allowed mask
AllowedAny(allowed, nidx) == TRUE

\* !(allowedMask && allowedMask[nidx] === 0)
Allowed(allowed, nidx) == ~(allowed # None /\ allowed[1][nidx + 1] = 0)

\* the loop over the offsets in expandMask for the pixel idx taken from the
\* queue, from offset n on; s holds output, dist and queue
RECURSIVE Visit(_, _, _, _, _, _, _)
Visit(s, at, offsets, n, width, height, allowed) ==
  IF n > Len(offsets) THEN s
  ELSE LET nx   == (at % width) + offsets[n][1]
           ny   == (at \div width) + offsets[n][2]
           nidx == ny * width + nx
       IN  IF \/ Outside(nx, ny, width, height)
              \/ ~Allowed(allowed, nidx)
              \/ s.dist[nidx + 1] # -1
           THEN Visit(s, at, offsets, n + 1, width, height, allowed)
           ELSE Visit([output |-> [s.output EXCEPT ![nidx + 1] = 1],
                       dist |-> [s.dist EXCEPT ![nidx + 1] = s.dist[at + 1] + 1],
                       queue |-> Append(s.queue, nidx)],
                      at, offsets, n + 1, width, height, allowed)

\* while (head < tail)
RECURSIVE Drain(_, _, _, _, _, _, _)
Drain(s, head, maxDepth, offsets, width, height, allowed) ==
  IF head >= Len(s.queue) THEN s.output
  ELSE IF s.dist[s.queue[head + 1] + 1] >= maxDepth
       THEN Drain(s, head + 1, maxDepth, offsets, width, height, allowed)
       ELSE Drain(Visit(s, s.queue[head + 1], offsets, 1, width, height, allowed),
                  head + 1, maxDepth, offsets, width, height, allowed)

\* the seeds among the first i pixels, in index order
RECURSIVE SeedQueue(_, _)
SeedQueue(seedMask, i) ==
  IF i = 0 THEN << >>
  ELSE IF seedMask[i] = 1 THEN Append(SeedQueue(seedMask, i - 1), i - 1)
       ELSE SeedQueue(seedMask, i - 1)

\* a depth of thickness steps
maxDepthFull(thickness) == Max(0, thickness)

\* const maxDepth = Math.max(0, Math.floor(thickness) - 1)
maxDepth(thickness) == Max(0, thickness - 1)

\* expandMask(seedMask, width, height, thickness, connectivity, allowedMask?)
expandMask(seedMask, width, height, thickness, connectivity, allowed) ==
  IF maxDepth(thickness) = 0
  THEN [i \in 1 .. width * height |-> IF seedMask[i] = 1 THEN 1 ELSE 0]
  ELSE Drain([output |-> [i \in 1 .. width * height |->
                            IF seedMask[i] = 1 THEN 1 ELSE 0],
              dist |-> [i \in 1 .. width * height |->
                          IF seedMask[i] = 1 THEN 0 ELSE -1],
              queue |-> SeedQueue(seedMask, width * height)],
             0, maxDepth(thickness), getNeighborOffsets(connectivity), width, height,
             allowed)

\* computeAlphaStrokeMask with the solid mask computed
AlphaStrokeOf(solidMask, width, height, thickness, connectivity) ==
  IF thickness <= 1
  THEN computeAlphaBoundaryMask(solidMask, width, height, connectivity)
  ELSE expandMask(computeAlphaBoundaryMask(solidMask, width, height, connectivity),
                  width, height, thickness, connectivity,
                  Some([i \in 1 .. width * height |-> IF solidMask[i] = 0 THEN 1 ELSE 0]))

computeAlphaStrokeMask(image, alphaThreshold, thickness, connectivity) ==
  AlphaStrokeOf(computeAlphaMask(image, alphaThreshold), image.width, image.height,
                thickness, connectivity)

(***************************************************************************)
(* Contrast masks.                                                         *)
(***************************************************************************)
\* the squared RGB distance between the pixels at offsets base and other of
\* data is at least limit
Far(data, base, other, limit) ==
  (data[base + 1] - data[other + 1]) * (data[base + 1] - data[other + 1])
  + (data[base + 2] - data[other + 2]) * (data[base + 2] - data[other + 2])
  + (data[base + 3] - data[other + 3]) * (data[base + 3] - data[other + 3]) >= limit

\* only the pixel the loop stands on is marked
MarkFirst(mask, contrast, a, b) ==
  IF contrast THEN [mask EXCEPT ![a + 1] = 1] ELSE mask

\* mask[a] = 1; mask[b] = 1 when the two pixels contrast
MarkBoth(mask, contrast, a, b) ==
  IF contrast THEN [mask EXCEPT ![a + 1] = 1, ![b + 1] = 1] ELSE mask

\* the body of the loop of computeContrastEdgeMask at pixel k = y * width + x:
\* right, down and, under connectivity 8, down-right and down-left
EdgeAt(image, mask, limit, connectivity, k) ==
  MarkBoth(
    MarkBoth(
      MarkBoth(
        MarkBoth(mask,
                 /\ (k % image.width) + 1 < image.width
                 /\ Far(image.data, k * 4, k * 4 + 4, limit),
                 k, k + 1),
        /\ (k \div image.width) + 1 < image.height
        /\ Far(image.data, k * 4, k * 4 + image.width * 4, limit),
        k, k + image.width),
      /\ connectivity = 8
      /\ (k \div image.width) + 1 < image.height
      /\ (k % image.width) + 1 < image.width
      /\ Far(image.data, k * 4, k * 4 + image.width * 4 + 4, limit),
      k, k + image.width + 1),
    /\ connectivity = 8
    /\ (k \div image.width) + 1 < image.height
    /\ k % image.width > 0
    /\ Far(image.data, k * 4, k * 4 + image.width * 4 - 4, limit),
    k, k + image.width - 1)

RECURSIVE EdgeFrom(_, _, _, _, _)
EdgeFrom(image, mask, limit, connectivity, k) ==
  IF k >= image.width * image.height THEN mask
  ELSE EdgeFrom(image, EdgeAt(image, mask, limit, connectivity, k), limit, connectivity,
                k + 1)

computeContrastEdgeMask(image, threshold, connectivity) ==
  EdgeFrom(image, Zeros(image.width * image.height), threshold * threshold,
           connectivity, 0)

\* computeContrastStrokeMask with the edge mask computed
ContrastStrokeOf(edgeMask, width, height, thickness, connectivity) ==
  IF thickness <= 1 THEN edgeMask
  ELSE expandMask(edgeMask, width, height, thickness, connectivity, None)

computeContrastStrokeMask(image, threshold, thickness, connectivity) ==
  ContrastStrokeOf(computeContrastEdgeMask(image, threshold, connectivity),
                   image.width, image.height, thickness, connectivity)

\* inside after the pixel with this edge entry: toggled where an edge run starts
Toggled(within, edge, lastEdge) ==
  IF edge = 1 /\ lastEdge = 0 THEN ~within ELSE within

\* the inner loop of computeContrastShapeMask on row y from column x
RECURSIVE ScanRow(_, _, _, _, _, _, _)
ScanRow(edgeMask, filled, width, y, x, within, lastEdge) ==
  IF x >= width THEN filled
  ELSE ScanRow(edgeMask,
               IF Toggled(within, edgeMask[y * width + x + 1], lastEdge)
                  \/ edgeMask[y * width + x + 1] = 1
               THEN [filled EXCEPT ![y * width + x + 1] = 1] ELSE filled,
               width, y, x + 1,
               Toggled(within, edgeMask[y * width + x + 1], lastEdge),
               edgeMask[y * width + x + 1])

RECURSIVE ScanFrom(_, _, _, _, _)
ScanFrom(edgeMask, filled, width, height, y) ==
  IF y >= height THEN filled
  ELSE ScanFrom(edgeMask, ScanRow(edgeMask, filled, width, y, 0, FALSE, 0), width,
                height, y + 1)

computeContrastShapeMask(image, threshold, connectivity) ==
  ScanFrom(computeContrastEdgeMask(image, threshold, connectivity),
           Zeros(image.width * image.height), image.width, image.height, 0)

\* createContrastStrokeSelector(options), with the defaults filled in
createContrastStrokeSelector(threshold, thickness, mode, connectivity) ==
  [kind |-> "contrast", threshold |-> Max(0, threshold), thickness |-> Max(1, thickness),
   mode |-> mode, connectivity |-> IF connectivity = 4 THEN 4 ELSE 8]

\* selector.prepare(image) of a contrast selector, on the rgba8 form of image
PrepareOn(selector, rgba) ==
  IF selector.mode = "shape"
  THEN computeContrastShapeMask(rgba, selector.threshold, selector.connectivity)
  ELSE computeContrastStrokeMask(rgba, selector.threshold, selector.thickness,
                                 selector.connectivity)

Prepare(selector, image) ==
  PrepareOn(selector, IF image.format = "rgba8" THEN image ELSE toFormat(image, "rgba8"))

(***************************************************************************)
(* Colours, selectors, selection masks.  A mask is the sequence of its     *)
(* elements: mask[k + 1] is the element of pixel k = y * width + x.        *)
(***************************************************************************)
\* clampByte(value) for value = num / den: Math.round(clamp(value, 0, 255))
clampByte(num, den) == Round(clamp(num, 0, ByteMax * den), den)

\* normalizeAlpha(alpha) of toRgba
normalizeAlpha(alpha) ==
  IF alpha <= 1 THEN clampByte(alpha * ByteMax, 1) ELSE clampByte(alpha, 1)

\* toRgba(input) for an { r, g, b, a? } input
toRgba(input) ==
  [r |-> clampByte(input.r, 1), g |-> clampByte(input.g, 1),
   b |-> clampByte(input.b, 1), a |-> normalizeAlpha(AlphaOf(input))]

createRectSelector(x, y, width, height) ==
  [kind |-> "rect", left |-> x, top |-> y, right |-> x + width, bottom |-> y + height]

createCircleSelector(cx, cy, radius) ==
  [kind |-> "circle", cx |-> cx, cy |-> cy, r2 |-> Max(0, radius) * Max(0, radius)]

createLumaSelector(threshold) == [kind |-> "luma", value |-> clampByte(threshold, 1)]

\* the mean of the three channels with its fraction dropped
LumaFloor(pixel) == (pixel.r + pixel.g + pixel.b) \div 3

\* luma of createLumaSelector: Math.round((pixel.r + pixel.g + pixel.b) / 3)
Luma(pixel) == Round(pixel.r + pixel.g + pixel.b, 3)

\* selector(pixel, x, y, context) for a selector without prepare
Selects(selector, pixel, x, y) ==
  CASE selector.kind = "rect" ->
         x >= selector.left /\ x < selector.right /\ y >= selector.top
           /\ y < selector.bottom
    [] selector.kind = "luma" -> Luma(pixel) >= selector.value
    [] OTHER ->
         (x - selector.cx) * (x - selector.cx) + (y - selector.cy) * (y - selector.cy)
           <= selector.r2

\* buildSelectionMask(image, selector, context): the prepared mask of a
\* contrast selector, else the selector asked pixel by pixel
buildSelectionMask(image, selector) ==
  IF selector.kind = "contrast" THEN Prepare(selector, image)
  ELSE
  [k \in 1 .. image.width * image.height |->
     IF Selects(selector,
                getPixel(image, (k - 1) % image.width, (k - 1) \div image.width),
                (k - 1) % image.width, (k - 1) \div image.width)
     THEN 1 ELSE 0]

\* the loop of applyMaskToImage on its clone
RECURSIVE MaskFrom(_, _, _, _)
MaskFrom(output, mask, outside, k) ==
  IF k >= output.width * output.height THEN output
  ELSE MaskFrom(IF mask[k + 1] = 0
                THEN setPixel(output, k % output.width, k \div output.width, outside)
                ELSE output,
                mask, outside, k + 1)

applyMaskToImage(image, mask, outside) == MaskFrom(clone(image), mask, outside, 0)

\* applyColorMask(image, mask, color): the image afterwards
RECURSIVE applyColorMask(_, _, _, _)
applyColorMask(image, mask, color, k) ==
  IF k >= image.width * image.height THEN image
  ELSE applyColorMask(IF mask[k + 1] = 1
                      THEN setPixel(image, k % image.width, k \div image.width, color)
                      ELSE image,
                      mask, color, k + 1)

(***************************************************************************)
(* The built-in nodes as programs over the heap of ImageBuffer objects: a  *)
(* handler is given the heap and the index of the object it received, and  *)
(* gives the heap afterwards and the index of the object it returns.       *)
(***************************************************************************)
\* an object constructed: the heap with it, and its index
New(h, image) == [heap |-> Append(h, image), out |-> Len(h) + 1]

\* the storage of object r.out after writes that leave it as image
Written(r, image) == [heap |-> [r.heap EXCEPT ![r.out] = image], out |-> r.out]

\* a handler that writes to the object it was given
WriteInPlace(h, i, image) == Written([heap |-> h, out |-> i], image)

\* const output = image.clone(); <writes to output>; return output
WriteToClone(h, i, image) == Written(New(h, clone(h[i])), image)

createFillNode(color) == [kind |-> "fill", color |-> toRgba(color)]

createRectNode(x, y, width, height, color) ==
  [kind |-> "rect", color |-> toRgba(color),
   selector |-> createRectSelector(x, y, width, height)]

createCircleNode(cx, cy, radius, color) ==
  [kind |-> "circle", color |-> toRgba(color),
   selector |-> createCircleSelector(cx, cy, radius)]

\* createAlphaStrokeNode(options) with a colour given as { r, g, b, a }
createAlphaStrokeNode(alphaThreshold, thickness, color, connectivity) ==
  [kind |-> "alpha-stroke", alphaThreshold |-> clampByte(alphaThreshold, 1),
   thickness |-> Max(1, thickness), connectivity |-> IF connectivity = 4 THEN 4 ELSE 8,
   color |-> toRgba(color)]

\* createContrastStrokeNode(options) with a colour given as { r, g, b, a }
createContrastStrokeNode(threshold, thickness, color, connectivity) ==
  [kind |-> "contrast-stroke", threshold |-> Max(0, threshold),
   thickness |-> Max(1, thickness), connectivity |-> IF connectivity = 4 THEN 4 ELSE 8,
   color |-> toRgba(color)]

\* image.format === 'rgba8' ? image : image.toFormat('rgba8')
Rgba(image) == IF image.format = "rgba8" THEN image ELSE toFormat(image, "rgba8")

\* the handler of a stroke node once output = base.clone() is painted: the
\* output is returned for an rgba8 image, else base, output and the converted
\* output are three new objects
Stroked(h, i, base, output) ==
  IF h[i].format = "rgba8" THEN WriteToClone(h, i, output)
  ELSE New(Written(New(New(h, base).heap, clone(base)), output).heap,
           toFormat(output, h[i].format))

\* const output = base.clone(); applyColorMask(output, mask, stroke)
StrokeWith(h, i, base, mask, color) ==
  Stroked(h, i, base, applyColorMask(clone(base), mask, color, 0))

AlphaStroke(node, h, i, base) ==
  StrokeWith(h, i, base,
             computeAlphaStrokeMask(base, node.alphaThreshold, node.thickness,
                                    node.connectivity),
             node.color)

ContrastStroke(node, h, i, base) ==
  StrokeWith(h, i, base,
             computeContrastStrokeMask(base, node.threshold, node.thickness,
                                       node.connectivity),
             node.color)

\* options.outsideColor ?? { r: 0, g: 0, b: 0, a: 0 }
NoColor == [r |-> 0, g |-> 0, b |-> 0, a |-> 0]

createSelectionCropNode(selector, outsideColor) ==
  [kind |-> "selection-crop", selector |-> selector, outside |-> toRgba(outsideColor)]

\* createMaskedNode(node, selector, { mode, outsideColor })
createMaskedNode(node, selector, mode, outsideColor) ==
  [kind |-> "masked", node |-> node, selector |-> selector, mode |-> mode,
   outside |-> toRgba(outsideColor)]

(***************************************************************************)
(* Convolution.  A kernel is the sequence of its rows.                     *)
(***************************************************************************)
RECURSIVE SumOf(_, _)
SumOf(row, n) == IF n = 0 THEN 0 ELSE SumOf(row, n - 1) + row[n]

RECURSIVE KernelTotal(_, _)
KernelTotal(kernel, n) ==
  IF n = 0 THEN 0 ELSE KernelTotal(kernel, n - 1) + SumOf(kernel[n], Len(kernel[n]))

\* a constructor that takes any kernel with at least one row
createConvolutionNodeUnchecked(name, kernel, normalize) ==
  IF Len(kernel) = 0 THEN [ok |-> FALSE, error |-> "InvalidKernel"]
  ELSE [ok |-> TRUE,
        node |-> [kind |-> "convolution", name |-> name, kernel |-> kernel,
                  radius |-> Len(kernel) \div 2,
                  divisor |-> IF normalize /\ KernelTotal(kernel, Len(kernel)) # 0
                              THEN KernelTotal(kernel, Len(kernel)) ELSE 1]]

\* createConvolutionNode(name, kernel, { normalize }): the node, or the error thrown
createConvolutionNode(name, kernel, normalize) ==
  IF \/ Len(kernel) = 0
     \/ \E row \in 1 .. Len(kernel) : Len(kernel[row]) # Len(kernel)
     \/ Len(kernel) % 2 = 0
  THEN [ok |-> FALSE, error |-> "InvalidKernel"]
  ELSE [ok |-> TRUE,
        node |-> [kind |-> "convolution", name |-> name, kernel |-> kernel,
                  radius |-> Len(kernel) \div 2,
                  divisor |-> IF normalize /\ KernelTotal(kernel, Len(kernel)) # 0
                              THEN KernelTotal(kernel, Len(kernel)) ELSE 1]]

\* the sums r, g, b, a over the first t taps kx of kernel row ky at pixel
\* (x, y), the source coordinates clamped to the image; on rgba8 the four
\* bytes read at the source index are the channels getPixel returns
AddTap(rest, pixel, weight) ==
  [r |-> rest.r + pixel.r * weight, g |-> rest.g + pixel.g * weight,
   b |-> rest.b + pixel.b * weight, a |-> rest.a + pixel.a * weight]

\* a source coordinate wrapped around the image
sampleWrapped(at, extent) == at % extent

\* const sx = clamp(x + kx - radius, 0, width - 1), and sy alike
sampleAt(at, extent) == clamp(at, 0, extent - 1)

RECURSIVE KernelRow(_, _, _, _, _, _)
KernelRow(image, node, x, y, ky, t) ==
  IF t = 0 THEN [r |-> 0, g |-> 0, b |-> 0, a |-> 0]
  ELSE AddTap(KernelRow(image, node, x, y, ky, t - 1),
              getPixel(image,
                       sampleAt(x + t - 1 - node.radius, image.width),
                       sampleAt(y + ky - node.radius, image.height)),
              node.kernel[ky + 1][t])

\* the sums over the first t rows of the kernel
RECURSIVE KernelSum(_, _, _, _, _)
KernelSum(image, node, x, y, t) ==
  IF t = 0 THEN [r |-> 0, g |-> 0, b |-> 0, a |-> 0]
  ELSE AddTap(KernelSum(image, node, x, y, t - 1),
              KernelRow(image, node, x, y, t - 1, Len(node.kernel)), 1)

\* clampByte(sum / divisor) for a divisor of either sign
clampByteOver(sum, divisor) ==
  IF divisor < 0 THEN clampByte(0 - sum, 0 - divisor) ELSE clampByte(sum, divisor)

ChannelOf(pixel, c) ==
  CASE c = 0 -> pixel.r [] c = 1 -> pixel.g [] c = 2 -> pixel.b [] c = 3 -> pixel.a

\* convolveRgba8(image, kernel, divisor, radius)
convolveRgba8(image, node) ==
  [width |-> image.width, height |-> image.height, format |-> "rgba8",
   data |-> [j \in 1 .. image.width * image.height * 4 |->
               clampByteOver(
                 ChannelOf(KernelSum(image, node, ((j - 1) \div 4) % image.width,
                                     ((j - 1) \div 4) \div image.width,
                                     Len(node.kernel)),
                           (j - 1) % 4),
                 node.divisor)]]

\* the loop of the handler of createConvolutionNode for the other formats;
\* the kernels applied to them have divisor 1, so r / divisor is the sum r
RECURSIVE ConvolveFrom(_, _, _, _)
ConvolveFrom(image, output, node, k) ==
  IF k >= image.width * image.height THEN output
  ELSE ConvolveFrom(image,
                    setPixel(output, k % image.width, k \div image.width,
                             KernelSum(image, node, k % image.width, k \div image.width,
                                       Len(node.kernel))),
                    node, k + 1)

\* the handler of createConvolutionNode
Convolve(image, node) ==
  IF image.format = "rgba8" THEN convolveRgba8(image, node)
  ELSE ConvolveFrom(image,
                    ImageBuffer(image.width, image.height, image.format, None).buf,
                    node, 0)

\* createConvolutionNode('identity', [[1]])
IdentityNode == createConvolutionNode("identity", << << 1 >> >>, TRUE).node

createSharpenNode ==
  createConvolutionNode("sharpen",
                        << << 0, -1, 0 >>, << -1, 5, -1 >>, << 0, -1, 0 >> >>, TRUE).node

createEdgeDetectNode ==
  createConvolutionNode("edge-detect",
                        << << -1, -1, -1 >>, << -1, 8, -1 >>, << -1, -1, -1 >> >>,
                        TRUE).node

(***************************************************************************)
(* Gaussian kernels and the separable blur, for sigma = 2.  A weight        *)
(* Math.exp(-n / 8) is the multiple of 1 / ExpDen nearest to it; the        *)
(* roundings of the doubles and of the Float32Array of the horizontal pass *)
(* are finer than that by many orders and are left out.                    *)
(***************************************************************************)
ExpDen == 256

\* ExpOf[n + 1] / ExpDen is Math.exp(-n / (2 * sigma * sigma)) for sigma = 2
ExpOf ==
  << 256, 226, 199, 176, 155, 137, 121, 107, 94, 83, 73, 65, 57, 50, 44, 39, 35,
     31, 27, 24, 21, 19, 16, 14, 13, 11, 10, 9, 8, 7, 6, 5, 5, 4, 4, 3, 3, 3, 2,
     2, 2, 2, 1, 1, 1, 1, 1, 1, 1, 1, 0 >>

\* size % 2 === 0 ? size + 1 : size
Dimension(size) == IF size % 2 = 0 THEN size + 1 ELSE size

\* buildGaussianKernel(size, 2): no row when the radius is negative
buildGaussianKernel(size) ==
  [y \in 1 .. 2 * (Dimension(size) \div 2) + 1 |->
     [x \in 1 .. 2 * (Dimension(size) \div 2) + 1 |->
        ExpOf[(x - 1 - Dimension(size) \div 2) * (x - 1 - Dimension(size) \div 2)
              + (y - 1 - Dimension(size) \div 2) * (y - 1 - Dimension(size) \div 2) + 1]]]

\* a kernel of radius round(size / 2), the halves rounded up
buildGaussianKernel1DRounded(size) ==
  [i \in 1 .. 2 * ((size + 1) \div 2) + 1 |->
     ExpOf[(i - 1 - (size + 1) \div 2) * (i - 1 - (size + 1) \div 2) + 1]]

\* buildGaussianKernel1D(size, 2) before the division by the sum
buildGaussianKernel1D(size) ==
  [i \in 1 .. 2 * (size \div 2) + 1 |->
     ExpOf[(i - 1 - size \div 2) * (i - 1 - size \div 2) + 1]]

\* the horizontal pass at (x, y), channel c, over the first t taps: the value
\* of temp times the sum of the kernel
RECURSIVE RowSum(_, _, _, _, _, _)
RowSum(image, kernel, x, y, c, t) ==
  IF t = 0 THEN 0
  ELSE RowSum(image, kernel, x, y, c, t - 1)
       + image.data[(y * image.width
                     + clamp(x + t - 1 - Len(kernel) \div 2, 0, image.width - 1)) * 4
                    + c + 1] * kernel[t]

\* the vertical pass at (x, y), channel c, over the first t taps, times the
\* square of the sum of the kernel
RECURSIVE ColumnSum(_, _, _, _, _, _)
ColumnSum(image, kernel, x, y, c, t) ==
  IF t = 0 THEN 0
  ELSE ColumnSum(image, kernel, x, y, c, t - 1)
       + RowSum(image, kernel, x,
                clamp(y + t - 1 - Len(kernel) \div 2, 0, image.height - 1), c,
                Len(kernel)) * kernel[t]

\* a blur of the rows only
BlurRowsOnly(image, kernel) ==
  [width |-> image.width, height |-> image.height, format |-> "rgba8",
   data |-> [j \in 1 .. image.width * image.height * 4 |->
               clampByte(RowSum(image, kernel, ((j - 1) \div 4) % image.width,
                                ((j - 1) \div 4) \div image.width, (j - 1) % 4,
                                Len(kernel)),
                         Max(1, SumOf(kernel, Len(kernel))))]]

\* the two passes of gaussianBlurRgba8 with the kernel made; with no tap the
\* sums are 0
BlurWith(image, kernel) ==
  [width |-> image.width, height |-> image.height, format |-> "rgba8",
   data |-> [j \in 1 .. image.width * image.height * 4 |->
               clampByte(ColumnSum(image, kernel, ((j - 1) \div 4) % image.width,
                                   ((j - 1) \div 4) \div image.width, (j - 1) % 4,
                                   Len(kernel)),
                         Max(1, SumOf(kernel, Len(kernel)) * SumOf(kernel, Len(kernel))))]]

\* the kernel gaussianBlurRgba8 makes for its two passes
BlurKernel(size) == buildGaussianKernel1D(Dimension(size))

gaussianBlurRgba8(image, size) == BlurWith(image, BlurKernel(size))

createGaussianBlurNode(size) == [kind |-> "gaussian-blur", size |-> size]

\* runNodeImage of the convolution node built, or the error its construction threw
BlurVia(image, built) ==
  IF built.ok THEN [ok |-> TRUE, image |-> Convolve(image, built.node)]
  ELSE [ok |-> FALSE, error |-> built.error]

\* the handler of createGaussianBlurNode: the buffer returned, or the error thrown
GaussianBlur(image, size) ==
  IF image.format # "rgba8"
  THEN BlurVia(image, createConvolutionNode("gaussian-blur", buildGaussianKernel(size), TRUE))
  ELSE [ok |-> TRUE, image |-> gaussianBlurRgba8(image, size)]

\* mergeSelection(image, result, mask): the loop on the clone of image
RECURSIVE MergeFrom(_, _, _, _)
MergeFrom(output, result, mask, k) ==
  IF k >= output.width * output.height THEN output
  ELSE MergeFrom(IF mask[k + 1] = 1
                 THEN setPixel(output, k % output.width, k \div output.width,
                               getPixel(result, k % output.width, k \div output.width))
                 ELSE output,
                 result, mask, k + 1)

mergeSelection(image, result, mask) == MergeFrom(clone(image), result, mask, 0)

\* the handler a node gave createImageNode, called with object i of heap h
Handler(node, h, i, rng, stash) ==
  CASE node.kind = "fill" -> WriteToClone(h, i, fill(clone(h[i]), node.color))
    [] node.kind \in {"rect", "circle"} ->
         WriteToClone(h, i,
                      applyColorMask(clone(h[i]), buildSelectionMask(h[i], node.selector),
                                     node.color, 0))
    [] node.kind = "invert" -> New(h, mapPixels(h[i], "invert"))
    [] node.kind = "noise" ->
         New(h, NoiseFrom(h[i],
                          ImageBuffer(h[i].width, h[i].height, h[i].format, None).buf,
                          rng, 0).image)
    [] node.kind = "value-noise" ->
         WriteToClone(h, i, ValueNoiseFrom(clone(h[i]), ensureSeed(rng, stash).seed, 0))
    [] node.kind = "convolution" -> New(h, Convolve(h[i], node))
    [] node.kind = "gaussian-blur" -> New(h, GaussianBlur(h[i], node.size).image)
    [] node.kind = "alpha-stroke" -> AlphaStroke(node, h, i, Rgba(h[i]))
    [] node.kind = "contrast-stroke" -> ContrastStroke(node, h, i, Rgba(h[i]))
    [] node.kind = "selection-crop" ->
         New(h, applyMaskToImage(h[i], buildSelectionMask(h[i], node.selector),
                                 node.outside))

\* the run function of createMaskedNode: the inner node is given the masked
\* clone ('clip') or the base itself ('preserve')
ClipOut(node, r, mask) == New(r.heap, applyMaskToImage(r.heap[r.out], mask, node.outside))

ClipIn(node, m, mask, rng, stash) ==
  ClipOut(node, Handler(node.node, m.heap, m.out, rng, stash), mask)

PreserveOut(base, r, mask) == New(r.heap, mergeSelection(base, r.heap[r.out], mask))

Masked(node, h, i, mask, rng, stash) ==
  IF node.mode = "preserve"
  THEN PreserveOut(h[i], Handler(node.node, h, i, rng, stash), mask)
  ELSE ClipIn(node, New(h, applyMaskToImage(h[i], mask, node.outside)), mask, rng, stash)

\* node.run(context, state) on the image of the state, object i of heap h
RunBuiltIn(node, h, i, rng, stash) ==
  IF node.kind = "masked"
  THEN Masked(node, h, i, buildSelectionMask(h[i], node.selector), rng, stash)
  ELSE Handler(node, h, i, rng, stash)

\* the random object and the stash of the context after the node ran
ContextAfter(node, image, rng, stash) ==
  CASE node.kind = "noise" ->
         [rng |-> NoiseFrom(image,
                          ImageBuffer(image.width, image.height, image.format, None).buf,
                          rng, 0).rng,
          stash |-> stash]
    [] node.kind = "value-noise" ->
         [rng |-> ensureSeed(rng, stash).rng, stash |-> ensureSeed(rng, stash).stash]
    [] OTHER -> [rng |-> rng, stash |-> stash]

(***************************************************************************)
(* Built-in nodes applied one after another to the image of a state.       *)
(***************************************************************************)
MaxApply == 2

\* the buffers a state is started with, one of each format
NodeInputs ==
  { [width |-> 3, height |-> 2, format |-> "rgba8",
     data |-> << 0, 1, 2, 255,     128, 254, 255, 3,   1, 1, 1, 1,
                 10, 200, 30, 0,   255, 255, 255, 255, 7, 9, 250, 128 >>],
    [width |-> 2, height |-> 1, format |-> "rgb8", data |-> << 0, 1, 2, 128, 254, 255 >>],
    [width |-> 2, height |-> 2, format |-> "gray8", data |-> << 0, 1, 128, 255 >>],
    [width |-> 1, height |-> 2, format |-> "rgba32f",
     data |-> << 0, 2, 256, FloatDen, 1, 255, 509, 4 >>] }

Teal == [r |-> 2, g |-> 128, b |-> 254, a |-> 255]

\* a colour with channels of value 1
Dim == [r |-> 1, g |-> 0, b |-> 1, a |-> 200]

\* the nodes applied
BuiltIns ==
  { createFillNode(Teal), createFillNode(Dim),
    createRectNode(1, 0, 1, 2, Teal), createCircleNode(1, 1, 1, Dim),
    [kind |-> "invert"], [kind |-> "noise"], [kind |-> "value-noise"],
    IdentityNode, createSharpenNode, createEdgeDetectNode, createGaussianBlurNode(3),
    createAlphaStrokeNode(128, 2, Teal, 4), createContrastStrokeNode(32, 1, Dim, 8),
    createSelectionCropNode(createRectSelector(0, 0, 2, 1), NoColor),
    createMaskedNode(createFillNode(Teal), createRectSelector(1, 0, 2, 1), "clip", Dim),
    createMaskedNode(createFillNode(Teal), createRectSelector(1, 0, 2, 1), "clip", NoColor),
    createMaskedNode([kind |-> "invert"], createCircleSelector(0, 0, 1), "preserve",
                     NoColor) }

\* a state whose image is the caller's buffer, object 1, and no node run yet
NodeInit ==
  /\ nodes = << >>
  /\ PipeIdle
  /\ \E image \in NodeInputs :
       /\ heap = << image >>
       /\ made = << Shape(image) >>
  /\ last = Call("none", 1, NoShape, 0, 0, NoPixel, "none")
  /\ ops = 0

\* the node returned object r.out and left the context as c
Applied(node, r, c) ==
  /\ heap' = r.heap
  /\ made' = [k \in 1 .. Len(r.heap) |->
                IF k <= Len(made) THEN made[k] ELSE Shape(r.heap[k])]
  /\ last' = Call(IF "name" \in DOMAIN node THEN node.name ELSE node.kind, r.out,
                  NoShape, 0, 0, NoPixel, "none")
  /\ rngs' = [rngs EXCEPT ![0] = c.rng]
  /\ ctx' = [ctx EXCEPT ![1].stash = c.stash]

\* one node run on the state's image, its output made the state's image
Apply(node) ==
  /\ ops < MaxApply
  /\ ops' = ops + 1
  /\ Applied(node,
             RunBuiltIn(node, heap, last.target, rngs[0], ctx[1].stash),
             ContextAfter(IF node.kind = "masked" THEN node.node ELSE node,
                          heap[last.target], rngs[0], ctx[1].stash))
  /\ UNCHANGED << nodes, pc, inputs, opts, states, idx, pending, resolved, outcome,
                  log, overlapped, acts >>

\* the blur is run on rgba8 buffers
NodeNext ==
  \E node \in BuiltIns :
    /\ node.kind = "gaussian-blur" => heap[last.target].format = "rgba8"
    /\ Apply(node)

SpecNode == NodeInit /\ [][NodeNext]_vars

(***************************************************************************)
(* Single calls: a call is drawn with its arguments, and returns.          *)
(***************************************************************************)
MaxKernel == 3

MaxBlurSize == 9

Ones(n) == [i \in 1 .. n |-> 1]

\* kernels of up to MaxKernel rows of up to MaxKernel weights each
KernelSamples == SeqsUpTo({Ones(n) : n \in 0 .. MaxKernel}, MaxKernel)

\* bytes of which the sampled rgba8 buffers are made
BlurBytes == << 0, 255, 1, 128, 37, 254, 200, 90, 255, 0, 13 >>

BlurImages ==
  { [width |-> 2, height |-> 2, format |-> "rgba8",
     data |-> << 0, 1, 2, 255,  128, 254, 255, 3,  10, 200, 30, 0,  255, 255, 255, 255 >>],
    [width |-> 2, height |-> 1, format |-> "rgb8", data |-> << 0, 7, 2, 128, 254, 255 >>] }
  \cup { [width |-> 3, height |-> 2, format |-> "rgba8",
          data |-> [j \in 1 .. 24 |-> BlurBytes[((j * step + shift) % Len(BlurBytes)) + 1]]] :
          step \in {1, 3}, shift \in 0 .. 3 }

MaxCoord == 2

\* seeds hash2D is called with: nextInt(0, 0x7fffffff) gives any of 0 .. 2^31 - 1
HashSeeds == {0, 1, 42, 661182627, 2147483647}

MaskWidth == 3

MaskHeight == 3

MaxThickness == 3

\* rgba8 buffers of MaskWidth x MaskHeight pixels whose alphas are 100 or 200,
\* in every arrangement
AlphaImages ==
  { [width |-> MaskWidth, height |-> MaskHeight, format |-> "rgba8",
     data |-> [j \in 1 .. MaskWidth * MaskHeight * 4 |->
                 IF j % 4 # 0 THEN 9
                 ELSE IF (j \div 4) \in solid THEN 200 ELSE 100]] :
      solid \in SUBSET (1 .. MaskWidth * MaskHeight) }

ShapeWidth == 5

ShapeHeight == 4

\* a uniform background of ShapeWidth x ShapeHeight rgba8 pixels with one square
Squared(left, top, size, back, front) ==
  [width |-> ShapeWidth, height |-> ShapeHeight, format |-> "rgba8",
   data |-> [j \in 1 .. ShapeWidth * ShapeHeight * 4 |->
               IF j % 4 = 0 THEN ByteMax
               ELSE IF /\ ((j - 1) \div 4) % ShapeWidth >= left
                       /\ ((j - 1) \div 4) % ShapeWidth < left + size
                       /\ ((j - 1) \div 4) \div ShapeWidth >= top
                       /\ ((j - 1) \div 4) \div ShapeWidth < top + size
                    THEN front[j % 4] ELSE back[j % 4]]]

\* calls of the contrast shape mask on a square at (left, top); those whose
\* square lies inside the buffer are drawn
Squares ==
  {[op |-> "contrast-shape", left |-> left, top |-> top, size |-> size,
    image |-> Squared(left, top, size, << 10, 10, 10 >>, front),
    threshold |-> 32, connectivity |-> connectivity, result |-> None] :
    size \in 1 .. Min(ShapeWidth, ShapeHeight), left \in 0 .. ShapeWidth - 1,
    top \in 0 .. ShapeHeight - 1, front \in {<< 42, 10, 10 >>, << 200, 100, 50 >>},
    connectivity \in {4, 8}}

Black == [r |-> 0, g |-> 0, b |-> 0, a |-> 255]

Grey == [r |-> 9, g |-> 9, b |-> 9, a |-> 255]

Rose == [r |-> 255, g |-> 1, b |-> 7, a |-> 128]

\* a masked fill on every rectangle of one pixel or more inside an rgba8 buffer
MaskedFills ==
  {[op |-> "masked-fill", image |-> c[1], x |-> c[2], y |-> c[3], width |-> c[4],
    height |-> c[5], color |-> c[6], outside |-> c[7], result |-> None] :
    c \in {d \in {b \in BlurImages \cup NodeInputs : b.format = "rgba8"}
                  \X (0 .. MaxCoord) \X (0 .. MaxCoord)
                  \X (1 .. MaxCoord + 1) \X (1 .. MaxCoord + 1)
                  \X {Teal, Dim, Black} \X {NoColor, Grey, Rose} :
              d[2] + d[4] <= d[1].width /\ d[3] + d[5] <= d[1].height}}

\* a masked node in preserve mode around an invert, a fill, a convolution or a
\* rect node, on every rectangle of one pixel or more inside a buffer
MaskedPreserves ==
  {[op |-> "masked-preserve", image |-> c[1], x |-> c[2], y |-> c[3], width |-> c[4],
    height |-> c[5], node |-> c[6], result |-> None] :
    c \in {d \in (BlurImages \cup NodeInputs)
                  \X (0 .. MaxCoord) \X (0 .. MaxCoord)
                  \X (1 .. MaxCoord + 1) \X (1 .. MaxCoord + 1)
                  \X {[kind |-> "invert"], createFillNode(Teal), IdentityNode,
                      createRectNode(0, 0, 1, 1, Grey)} :
              d[2] + d[4] <= d[1].width /\ d[3] + d[5] <= d[1].height}}

\* rgba8 buffers of MaskWidth x MaskHeight pixels of two colours whose squared
\* distance is 32 * 32, in every arrangement
EdgeImages ==
  { [width |-> MaskWidth, height |-> MaskHeight, format |-> "rgba8",
     data |-> [j \in 1 .. MaskWidth * MaskHeight * 4 |->
                 IF j % 4 = 0 THEN ByteMax
                 ELSE IF j % 4 = 1 /\ ((j + 3) \div 4) \in front THEN 42 ELSE 10]] :
      front \in SUBSET (1 .. MaskWidth * MaskHeight) }

\* nodes of valid kernels: the built-in ones and a kernel of nine different
\* weights, plain and normalised
ConvolutionNodes ==
  { IdentityNode, createSharpenNode, createEdgeDetectNode,
    createConvolutionNode("custom", << << 1, 2, 3 >>, << 4, 5, 6 >>, << 7, 8, 9 >> >>,
                          FALSE).node,
    createConvolutionNode("custom", << << 1, 2, 3 >>, << 4, 0, 6 >>, << 7, 8, 9 >> >>,
                          TRUE).node }

\* the buffers convolved: on the formats other than rgba8 the kernels of
\* divisor 1
Convolutions ==
  {[op |-> "convolve", image |-> c[1], node |-> c[2], result |-> None] :
     c \in {d \in (BlurImages \cup NodeInputs
                    \cup {[width |-> 1, height |-> 1, format |-> "rgba8",
                           data |-> << 7, 1, 200, 255 >>]}) \X ConvolutionNodes :
              d[1].format = "rgba8" \/ d[2].divisor = 1}}

\* thresholds below, inside and above the range of a byte, and channel values
\* around them
LumaThresholds == {-3, 0, 1, 2, 127, 128, 255, 300}

LumaChannels == {0, 1, 2, 3, 126, 127, 128, 129, 254, 255}

\* the calls drawn; on the formats other than rgba8 the blur is called with
\* sizes up to 1, whose kernels have at most the one weight 1
Pending ==
  {[op |-> "createConvolutionNode", kernel |-> kernel, normalize |-> normalize,
    result |-> None] : kernel \in KernelSamples, normalize \in BOOLEAN}
  \cup {[op |-> "gaussian-blur", image |-> image, size |-> size, result |-> None] :
          image \in {b \in BlurImages : b.format = "rgba8"}, size \in -2 .. MaxBlurSize}
  \cup {[op |-> "gaussian-blur", image |-> image, size |-> size, result |-> None] :
          image \in BlurImages, size \in -2 .. 1}
  \cup {[op |-> "hash2D", x |-> x, y |-> y, seed |-> seed, result |-> None] :
          x \in 0 .. MaxCoord, y \in 0 .. MaxCoord, seed \in HashSeeds}
  \cup {[op |-> "computeAlphaStrokeMask", image |-> image, alphaThreshold |-> 128,
          thickness |-> thickness, connectivity |-> connectivity, result |-> None] :
          image \in AlphaImages, thickness \in 1 .. MaxThickness,
          connectivity \in {4, 8}}
  \cup MaskedFills
  \cup {call \in Squares :
          call.left + call.size <= ShapeWidth /\ call.top + call.size <= ShapeHeight}
  \cup MaskedPreserves
  \cup {[op |-> "computeContrastEdgeMask", image |-> image, threshold |-> threshold,
          connectivity |-> connectivity, result |-> None] :
          image \in EdgeImages, threshold \in {0, 32, 33}, connectivity \in {4, 8}}
  \cup Convolutions
  \cup {[op |-> "blur-kernel", size |-> size, result |-> None] :
          size \in -2 .. MaxBlurSize}
  \cup {[op |-> "createLumaSelector", threshold |-> threshold,
          pixel |-> [r |-> r, g |-> g, b |-> b, a |-> ByteMax], result |-> None] :
          threshold \in LumaThresholds, r \in LumaChannels, g \in LumaChannels,
          b \in LumaChannels}

CallInit ==
  /\ nodes = << >>
  /\ PipeIdle
  /\ heap = << >>
  /\ made = << >>
  /\ ops = 0
  /\ last \in Pending

\* the call returns (or throws)
Answer(result) ==
  /\ ops = 0
  /\ ops' = 1
  /\ last' = [last EXCEPT !.result = Some(result)]
  /\ UNCHANGED << heap, made, pipeVars >>

CallCreateConvolution ==
  /\ last.op = "createConvolutionNode"
  /\ Answer(createConvolutionNode("custom", last.kernel, last.normalize))

CallGaussianBlur ==
  /\ last.op = "gaussian-blur"
  /\ Answer(GaussianBlur(last.image, last.size))

\* the result n / 4294967295 of hash2D is returned as its numerator n
CallHash2D ==
  /\ last.op = "hash2D"
  /\ Answer(hash2D(last.x, last.y, last.seed))

CallAlphaStrokeMask ==
  /\ last.op = "computeAlphaStrokeMask"
  /\ Answer(computeAlphaStrokeMask(last.image, last.alphaThreshold, last.thickness,
                                   last.connectivity))

CallContrastShape ==
  /\ last.op = "contrast-shape"
  /\ Answer(buildSelectionMask(last.image,
                               createContrastStrokeSelector(last.threshold, 1, "shape",
                                                            last.connectivity)))

\* the image a node returned
Produced(r) == r.heap[r.out]

CallMaskedFill ==
  /\ last.op = "masked-fill"
  /\ Answer(Produced(RunBuiltIn(createMaskedNode(createFillNode(last.color),
                                                 createRectSelector(last.x, last.y,
                                                                    last.width,
                                                                    last.height),
                                                 "clip", last.outside),
                                << last.image >>, 1, rngs[0], None)))

\* the masked node's output, and the image the wrapped node returns when run
\* on the unmasked input
CallMaskedPreserve ==
  /\ last.op = "masked-preserve"
  /\ Answer([image |-> Produced(RunBuiltIn(createMaskedNode(last.node,
                                                            createRectSelector(last.x, last.y,
                                                                               last.width,
                                                                               last.height),
                                                            "preserve", NoColor),
                                           << last.image >>, 1, rngs[0], None)),
             inner |-> Produced(Handler(last.node, << last.image >>, 1, rngs[0], None))])

CallContrastEdge ==
  /\ last.op = "computeContrastEdgeMask"
  /\ Answer(computeContrastEdgeMask(last.image, last.threshold, last.connectivity))

CallConvolve ==
  /\ last.op = "convolve"
  /\ Answer(Convolve(last.image, last.node))

\* the kernel of gaussianBlurRgba8(image, size, 2), which no image changes
CallBlurKernel ==
  /\ last.op = "blur-kernel"
  /\ Answer(BlurKernel(last.size))

\* createLumaSelector(threshold)(pixel, 0, 0)
CallLumaSelector ==
  /\ last.op = "createLumaSelector"
  /\ Answer(Selects(createLumaSelector(last.threshold), last.pixel, 0, 0))

CallNext ==
  \/ CallCreateConvolution
  \/ CallGaussianBlur
  \/ CallHash2D
  \/ CallAlphaStrokeMask
  \/ CallContrastShape
  \/ CallMaskedFill
  \/ CallMaskedPreserve
  \/ CallContrastEdge
  \/ CallConvolve
  \/ CallBlurKernel
  \/ CallLumaSelector

SpecCall == CallInit /\ [][CallNext]_vars

(***************************************************************************)
(* A run whose pipeline holds a mask-map node.  acts holds the calls of    *)
(* node run functions of run 1: the node, the call that made it (parent,   *)
(* 0 for the loop of runState), the slot of the parent it feeds, and where *)
(* it is: "io" (its handler awaits the resize collaborator), "handler"     *)
(* (suspended at "await run(...)" with the handler's value at hand),       *)
(* "mask" and "layers" (a mask-map handler awaiting its mask, its layers), *)
(* "returned".  A mask-map call has one slot for its mask and one for each *)
(* entry: the source and how far its resolution is ("unstarted", "node",   *)
(* "load", "resize", "done").  Collaborators settle with a value.          *)
(***************************************************************************)
MaxEntries == 2

\* sources of a mask or an entry: the base (entry.source absent), a buffer of
\* the size of the base or of another size, a path to load, a node
MapSources ==
  {[type |-> "buffer", image |-> CallerImage], [type |-> "buffer", image |-> DecodedImage],
   [type |-> "path"], [type |-> "node", node |-> createInvertNode],
   [type |-> "node", node |-> createResizeNode]}

BaseSource == [type |-> "buffer", image |-> CallerImage]

\* createMaskMapNode(mask, entries); an entry without source uses the base
createMaskMapNode(mask, entries) ==
  [kind |-> "mask-map", inputs |-> << DEFAULT_IMAGE_KEY >>,
   outputs |-> << DEFAULT_IMAGE_KEY >>, input |-> DEFAULT_IMAGE_KEY,
   output |-> DEFAULT_IMAGE_KEY, mask |-> mask, entries |-> entries]

\* the image a source resolves to has the width and height of the base; the
\* nodes used as sources keep the size of the state's image
Fits(source) ==
  CASE source.type = "buffer" ->
         source.image.width = CallerImage.width /\ source.image.height = CallerImage.height
    [] source.type = "path" ->
         DecodedImage.width = CallerImage.width /\ DecodedImage.height = CallerImage.height
    [] source.type = "node" -> TRUE

\* where a callback stands once its source is resolved: it awaits resizeImage
\* unless the sizes agree
Resolved(source) == IF Fits(source) THEN "done" ELSE "resize"

\* a call of node.run up to its first suspension
Activation(node, parent, slot) ==
  [node |-> node, parent |-> parent, slot |-> slot,
   at |-> CASE node.kind = "mask-map" -> "mask"
            [] node.kind = "resize" -> "io"
            [] OTHER -> "handler",
   slots |-> IF node.kind = "mask-map"
             THEN [j \in 1 .. Len(node.entries) + 1 |->
                     [source |-> IF j = 1 THEN node.mask ELSE node.entries[j - 1],
                      at |-> "unstarted"]]
             ELSE << >>]

\* resolveImageInput(source, context, state) called for slot j of call p: a
\* node source is run (runNodeImage), a path is loaded, a buffer is returned
Started(a, p, j) ==
  IF a[p].slots[j].source.type = "node"
  THEN Append([a EXCEPT ![p].slots[j].at = "node"],
              Activation(a[p].slots[j].source.node, p, j))
  ELSE [a EXCEPT ![p].slots[j].at =
          IF a[p].slots[j].source.type = "path" THEN "load"
          ELSE Resolved(a[p].slots[j].source)]

\* params.entries.map(async (entry) => ...): every callback runs to its first
\* await before Promise.all is awaited
RECURSIVE StartEntries(_, _, _)
StartEntries(a, p, j) ==
  IF j > Len(a[p].slots) THEN a ELSE StartEntries(Started(a, p, j), p, j + 1)

\* node.run(context, state) called by the loop of runState: a mask-map handler
\* runs up to "await resolveImageInput(mask, context, state)"
CalledAt(a, node) ==
  IF node.kind = "mask-map"
  THEN Started(Append(a, Activation(node, 0, 0)), Len(a) + 1, 1)
  ELSE Append(a, Activation(node, 0, 0))

\* the head of the loop of runState with the iterator at position i
MapLoop(a, i) ==
  /\ idx' = [idx EXCEPT ![1] = i]
  /\ IF i > Len(nodes)
     THEN acts' = a /\ pc' = [pc EXCEPT ![1] = "resolved"]
     ELSE acts' = CalledAt(a, nodes[i]) /\ pc' = [pc EXCEPT ![1] = "node"]
  /\ UNCHANGED << nodes, rngs, inputs, opts, ctx, states, pending, resolved, outcome,
                  log, overlapped, bufVars >>

MapSimple == {createInvertNode, createResizeNode}

MapInit ==
  /\ \E before \in SeqsUpTo(MapSimple, 1), after \in SeqsUpTo(MapSimple, 1),
        mask \in MapSources, entries \in SeqsUpTo(MapSources, MaxEntries) :
       nodes = before \o << createMaskMapNode(mask, entries) >> \o after
  /\ PipeIdle
  /\ BufIdle

\* runState is called with the caller's buffer and, normalizeInput settled,
\* its loop calls the first node
MapEnter ==
  /\ pc[1] = "idle"
  /\ MapLoop(acts, 1)

\* the resize collaborator awaited by the handler of call k settles
ActIo(k) ==
  /\ acts[k].at = "io"
  /\ acts' = [acts EXCEPT ![k].at = "handler"]
  /\ UNCHANGED << nodes, rngs, pc, inputs, opts, ctx, states, idx, pending, resolved,
                  outcome, log, overlapped, bufVars >>

\* call k resumes after "await run(...)" and returns: the loop of runState
\* merges and goes on, or the callback that ran the node goes on
ActReturn(k) ==
  /\ acts[k].at = "handler"
  /\ IF acts[k].parent = 0
     THEN MapLoop([acts EXCEPT ![k].at = "returned"], idx[1] + 1)
     ELSE /\ acts' = [acts EXCEPT ![k].at = "returned",
                                  ![acts[k].parent].slots[acts[k].slot].at =
                                    Resolved(acts[acts[k].parent].slots[acts[k].slot].source)]
          /\ UNCHANGED << nodes, rngs, pc, inputs, opts, ctx, states, idx, pending,
                          resolved, outcome, log, overlapped, bufVars >>

\* loadImage or resizeImage awaited for slot j of call p settles
SlotIo(p, j) ==
  /\ acts[p].at \in {"mask", "layers"}
  /\ acts[p].slots[j].at \in {"load", "resize"}
  /\ acts' = [acts EXCEPT ![p].slots[j].at =
                IF acts[p].slots[j].at = "load" THEN Resolved(acts[p].slots[j].source)
                ELSE "done"]
  /\ UNCHANGED << nodes, rngs, pc, inputs, opts, ctx, states, idx, pending, resolved,
                  outcome, log, overlapped, bufVars >>

\* the mask is at hand: the handler maps the entries and awaits Promise.all
MaskReady(p) ==
  /\ acts[p].at = "mask"
  /\ acts[p].slots[1].at = "done"
  /\ acts' = StartEntries([acts EXCEPT ![p].at = "layers"], p, 2)
  /\ UNCHANGED << nodes, rngs, pc, inputs, opts, ctx, states, idx, pending, resolved,
                  outcome, log, overlapped, bufVars >>

\* Promise.all has settled: mapMaskComposite, and the node returns
MapDone(p) ==
  /\ acts[p].at = "layers"
  /\ \A j \in 1 .. Len(acts[p].slots) : acts[p].slots[j].at = "done"
  /\ MapLoop([acts EXCEPT ![p].at = "returned"], idx[1] + 1)

MapNext ==
  \/ MapEnter
  \/ \E k \in 1 .. Len(acts) : ActIo(k)
  \/ \E k \in 1 .. Len(acts) : ActReturn(k)
  \/ \E p \in 1 .. Len(acts), j \in 1 .. MaxEntries + 1 :
       j <= Len(acts[p].slots) /\ SlotIo(p, j)
  \/ \E p \in 1 .. Len(acts) : MaskReady(p)
  \/ \E p \in 1 .. Len(acts) : MapDone(p)

SpecMap == MapInit /\ [][MapNext]_vars

(***************************************************************************)
(* The NodeState objects of one runState call.  Here the heap holds the    *)
(* NodeState objects that exist, made holds the entries each was created   *)
(* with, and last holds the reference the loop variable state refers to    *)
(* and the references handed to run functions so far.                      *)
(***************************************************************************)
\* withImage(state, key, image): the entries of the object it returns
withImage(st, key, image) ==
  [images |-> Spread(st.images, [k \in {key} |-> image]),
   data |-> Spread(st.data, EmptyMap)]

\* the merge written into the object it is given
MergedInPlace(h, ref, result) == [h EXCEPT ![ref] = mergeNodeState(h[ref], result)]

\* "state = mergeNodeState(state, result)": the object literal is a new object
MergedObject(h, ref, result) == Append(h, mergeNodeState(h[ref], result))

MaskedInvert(mode) ==
  createMaskedNode([kind |-> "invert"], createRectSelector(0, 0, 1, 1), mode, NoColor)

StateNodes ==
  { createNoiseNode, createInvertNode, CopyToAux, InvertFromAux, StashStats,
    MaskedInvert("preserve"), MaskedInvert("clip") }

\* the image createMaskedNode hands to the wrapped node in innerState
InnerInput(node, base) ==
  IF node.mode = "preserve" THEN base
  ELSE applyMaskToImage(base, buildSelectionMask(base, node.selector), node.outside)

\* the run function of createMaskedNode on the object ref of h: the store with
\* innerState in it, and what the run function returns
MaskedRun(node, h, ref, got) ==
  IF ~got.ok
  THEN [heap |-> h, passed |-> << ref >>,
        pending |-> [status |-> "error", result |-> EmptyResult, error |-> got.error]]
  ELSE [heap |-> Append(h, withImage(h[ref], DEFAULT_IMAGE_KEY,
                                     InnerInput(node, got.image))),
        passed |-> << ref, Len(h) + 1 >>,
        pending |-> [status |-> "ok", error |-> "none",
                     result |-> [images |-> [k \in {DEFAULT_IMAGE_KEY} |->
                                   Produced(RunBuiltIn(node, << got.image >>, 1,
                                                       rngs[1], None))],
                                 data |-> EmptyMap]]]

\* the run function of any other node, which makes no NodeState object
PlainRun(h, ref, out) ==
  [heap |-> h, passed |-> << ref >>,
   pending |-> [status |-> out.status, result |-> out.result, error |-> out.error]]

StateInit ==
  /\ nodes \in SeqsUpTo(StateNodes, MaxNodes)
  /\ PipeIdle
  /\ heap = << >>
  /\ made = << >>
  /\ last = [op |-> "none", state |-> 0, passed |-> << >>]
  /\ ops = 0

\* runState(input) up to the loop: the caller's NodeState object, if the input
\* is one, and the object normalizeInput returns
StateStart(in) ==
  /\ pc[1] = "idle"
  /\ pc' = [pc EXCEPT ![1] = "input"]
  /\ inputs' = [inputs EXCEPT ![1] = in]
  /\ idx' = [idx EXCEPT ![1] = 1]
  /\ heap' = Append(IF in.type = "state" THEN << in.state >> ELSE << >>,
                    normalizeInput(in, DecodedImage, EmptyMap))
  /\ made' = heap'
  /\ last' = [op |-> "normalizeInput", state |-> Len(heap'), passed |-> << >>]
  /\ UNCHANGED << nodes, rngs, opts, ctx, states, pending, resolved, outcome, log,
                  overlapped, acts, ops >>

\* the store, the references passed and the settlement of a call: taken
StateCalled(run, rng) ==
  /\ heap' = run.heap
  /\ made' = made \o SubSeq(run.heap, Len(made) + 1, Len(run.heap))
  /\ last' = [last EXCEPT !.op = "run", !.passed = last.passed \o run.passed]
  /\ pending' = [pending EXCEPT ![1] = run.pending]
  /\ rngs' = [rngs EXCEPT ![1] = rng]

\* node.run(context, state, node.params) of the node the iterator is at
StateCall ==
  /\ pc[1] = "input"
  /\ idx[1] <= Len(nodes)
  /\ pc' = [pc EXCEPT ![1] = "node"]
  /\ IF nodes[idx[1]].kind = "masked"
     THEN StateCalled(MaskedRun(nodes[idx[1]], heap, last.state,
                                getImage(heap[last.state], DEFAULT_IMAGE_KEY)),
                      rngs[1])
     ELSE StateCalled(PlainRun(heap, last.state,
                               RunNode(nodes[idx[1]], heap[last.state], rngs[1], None)),
                      RunNode(nodes[idx[1]], heap[last.state], rngs[1], None).rng)
  /\ UNCHANGED << nodes, inputs, opts, ctx, states, idx, resolved, outcome, log,
                  overlapped, acts, ops >>

\* the call settles: the loop merges and goes on, or runState rejects
StateMerge ==
  /\ pc[1] = "node"
  /\ IF pending[1].status = "ok"
     THEN /\ heap' = MergedObject(heap, last.state, pending[1].result)
          /\ made' = made \o SubSeq(heap', Len(made) + 1, Len(heap'))
          /\ last' = [last EXCEPT !.op = "mergeNodeState",
                                  !.state = IF Len(heap') > Len(heap) THEN Len(heap')
                                            ELSE last.state]
          /\ idx' = [idx EXCEPT ![1] = idx[1] + 1]
          /\ pc' = [pc EXCEPT ![1] = "input"]
     ELSE /\ pc' = [pc EXCEPT ![1] = "failed"]
          /\ UNCHANGED << heap, made, last, idx >>
  /\ UNCHANGED << nodes, rngs, inputs, opts, ctx, states, pending, resolved, outcome,
                  log, overlapped, acts, ops >>

\* the loop is over: runState returns the object state refers to
StateReturn ==
  /\ pc[1] = "input"
  /\ idx[1] > Len(nodes)
  /\ pc' = [pc EXCEPT ![1] = "resolved"]
  /\ resolved' = [resolved EXCEPT ![1] = Some(heap[last.state])]
  /\ UNCHANGED << nodes, rngs, inputs, opts, ctx, states, idx, pending, outcome, log,
                  overlapped, acts, bufVars >>

StateNext ==
  \/ \E in \in {BufferInput, StateInput} : StateStart(in)
  \/ StateCall
  \/ StateMerge
  \/ StateReturn

SpecState == StateInit /\ [][StateNext]_vars

(***************************************************************************)
(* Pipeline.add beside the runs.  Here last holds the last call of add:    *)
(* the length of Pipeline.nodes before it and the runs then in flight.     *)
(***************************************************************************)
AddSamples == {createInvertNode}

\* add(...nodes) with at least one node: this.nodes.push(...nodes), on the
\* array the runs iterate; the array is kept to MaxNodes nodes
Add(added) ==
  /\ Len(nodes) + Len(added) <= MaxNodes
  /\ nodes' = nodes \o added
  /\ last' = [op |-> "add", length |-> Len(nodes), added |-> added,
              inflight |-> {r \in Runs : InFlight(r)}]
  /\ UNCHANGED << rngs, pc, inputs, opts, ctx, states, idx, pending, resolved, outcome,
                  log, overlapped, acts, heap, made, ops >>

AddNext ==
  \/ \E r \in Runs, call \in CallSamples, now \in NowSamples : Start(r, call, now)
  \/ \E r \in Runs, load \in {"ok", "IoError", "DecodeError"} : InputReady(r, load)
  \/ \E r \in Runs, ok \in BOOLEAN : IoDone(r, ok)
  \/ \E r \in Runs : NodeDone(r)
  \/ \E r \in Runs : Finish(r)
  \/ \E added \in SeqsUpTo(AddSamples, MaxNodes) \ {<< >>} : Add(added)

SpecAdd == Init /\ [][AddNext]_vars

(***************************************************************************)
(* Claims about Pipeline.run and Pipeline.runState.                        *)
(***************************************************************************)
\* the state a run's loop starts from
InitialState(r) == normalizeInput(inputs[r], DecodedImage, EmptyMap)

\* the initial state merged with the results of the first m merges of run r
RECURSIVE MergedUpTo(_, _)
MergedUpTo(r, m) ==
  IF m = 0 THEN InitialState(r)
  ELSE mergeNodeState(MergedUpTo(r, m - 1), log[r][2 * m].result)

\* C1: in every run the calls and merges alternate in node order (call 1,
\* merge 1, call 2, merge 2, ...), so a node is called only after the merge of
\* the node before it; the state passed to node m is the initial state merged
\* with the results of nodes 1..m-1; a suspended run has called exactly the
\* nodes up to its position; and a run that has merged its last node has
\* called every node exactly once and is resolved with the last merged state.
C1_SequentialOrder ==
  \A r \in Runs :
    /\ \A j \in 1 .. Len(log[r]) :
         /\ log[r][j].node = (j + 1) \div 2
         /\ log[r][j].ev = IF j % 2 = 1 THEN "run" ELSE "merge"
         /\ log[r][j].state = MergedUpTo(r, j \div 2)
    /\ Len(log[r]) <= 2 * Len(nodes)
    /\ pc[r] \in {"node", "io"} => Len(log[r]) = 2 * idx[r] - 1
    /\ (pc[r] = "input" \/ pc[r] = "idle") => log[r] = << >>
    /\ resolved[r] # None <=> pc[r] \in {"resolved", "done"}
                                \/ (pc[r] = "failed" /\ outcome[r].error = "MissingOutput")
    /\ resolved[r] # None =>
         /\ Len(log[r]) = 2 * Len(nodes)
         /\ resolved[r][1] = MergedUpTo(r, Len(nodes))

\* a run of a full-length pipeline resolved, each merge having changed the state
C1_Witness ==
  \E r \in Runs :
    /\ resolved[r] # None
    /\ Len(nodes) = MaxNodes
    /\ log[r][3].state # log[r][1].state
    /\ resolved[r][1] # log[r][3].state

\* C2: every merge of every run is a last-write-wins union: the merged maps
\* hold the result's value for each key of the result, the previous value for
\* every other key, and no other key; and a key present in an earlier state of
\* a run is present in every later one.
C2_MergeLastWriteWins ==
  \A r \in Runs :
    /\ \A j \in 1 .. Len(log[r]) :
         log[r][j].ev = "merge" =>
           LET before == log[r][j - 1].state
               result == log[r][j].result
               after  == log[r][j].state
           IN  /\ DOMAIN after.images = DOMAIN before.images \cup DOMAIN result.images
               /\ DOMAIN after.data = DOMAIN before.data \cup DOMAIN result.data
               /\ \A k \in DOMAIN result.images : after.images[k] = result.images[k]
               /\ \A k \in DOMAIN result.data : after.data[k] = result.data[k]
               /\ \A k \in DOMAIN before.images \ DOMAIN result.images :
                    after.images[k] = before.images[k]
               /\ \A k \in DOMAIN before.data \ DOMAIN result.data :
                    after.data[k] = before.data[k]
    /\ \A i, j \in 1 .. Len(log[r]) :
         i < j => /\ DOMAIN log[r][i].state.images \subseteq DOMAIN log[r][j].state.images
                  /\ DOMAIN log[r][i].state.data \subseteq DOMAIN log[r][j].state.data

\* a merge that replaced the default image while the image under aux stayed
C2_Witness ==
  \E r \in Runs : \E j \in 1 .. Len(log[r]) :
    /\ log[r][j].ev = "merge"
    /\ DEFAULT_IMAGE_KEY \in DOMAIN log[r][j].result.images
    /\ DEFAULT_IMAGE_KEY \in DOMAIN log[r][j - 1].state.images
    /\ log[r][j].result.images[DEFAULT_IMAGE_KEY]
         # log[r][j - 1].state.images[DEFAULT_IMAGE_KEY]
    /\ "aux" \in DOMAIN log[r][j - 1].state.images
    /\ "aux" \notin DOMAIN log[r][j].result.images

\* a key the node declares is absent from the state
DeclaredInputAbsent(node, st) ==
  \E m \in 1 .. Len(node.inputs) : node.inputs[m] \notin DOMAIN st.images

\* C3: whenever a node is called with a state that lacks a key of its declared
\* inputs, that call is the last event of its run, it fails with MissingInput,
\* and the run fails with that error without a merge.
C3_DeclaredInputRequired ==
  \A r \in Runs : \A j \in 1 .. Len(log[r]) :
    (log[r][j].ev = "run" /\ DeclaredInputAbsent(nodes[log[r][j].node], log[r][j].state))
      => /\ j = Len(log[r])
         /\ pc[r] \in {"node", "failed"}
         /\ pc[r] = "node" => /\ pending[r].status = "error"
                              /\ pending[r].error = "MissingInput"
         /\ pc[r] = "failed" => outcome[r].error = "MissingInput"

\* C4: a run that returned gave its caller exactly the image under the default
\* key of the state runState resolved with, and a run whose runState resolved
\* fails with MissingOutput exactly when that state has no image under the
\* default key.
C4_DefaultOutput ==
  \A r \in Runs :
    /\ pc[r] = "done" =>
         /\ resolved[r] # None
         /\ DEFAULT_IMAGE_KEY \in DOMAIN resolved[r][1].images
         /\ outcome[r] = [status |-> "image",
                          image |-> resolved[r][1].images[DEFAULT_IMAGE_KEY],
                          error |-> "none"]
    /\ (pc[r] = "failed" /\ outcome[r].error = "MissingOutput") =>
         /\ resolved[r] # None
         /\ DEFAULT_IMAGE_KEY \notin DOMAIN resolved[r][1].images
         /\ outcome[r].status = "error"
    /\ (pc[r] \in {"done", "failed"} /\ resolved[r] # None
          /\ DEFAULT_IMAGE_KEY \notin DOMAIN resolved[r][1].images) =>
         (pc[r] = "failed" /\ outcome[r].error = "MissingOutput")

\* a run returned while its final state also held another image under aux
C4_Witness ==
  \E r \in Runs :
    /\ pc[r] = "done"
    /\ "aux" \in DOMAIN resolved[r][1].images
    /\ resolved[r][1].images["aux"] # resolved[r][1].images[DEFAULT_IMAGE_KEY]
    /\ outcome[r].image # resolved[r][1].images["aux"]

NodeErrors == {"MissingInput", "ResizeError"}

\* the call recorded as event j of run r threw when it read its input
CallThrew(r, j) ==
  /\ log[r][j].ev = "run"
  /\ ~getImage(log[r][j].state, nodes[log[r][j].node].input).ok

\* C5: a call of a node that throws is the last thing its run does, and the
\* run fails with that error; a run that failed at a node holds that one error
\* and nothing else: its runState never resolved, no image was returned, and
\* the call of the failing node is its last event (no merge of it, no later
\* call).
C5_FailureDiscardsState ==
  \A r \in Runs :
    /\ \A j \in 1 .. Len(log[r]) :
         CallThrew(r, j) =>
           /\ j = Len(log[r])
           /\ pc[r] \in {"node", "failed"}
           /\ pc[r] = "failed" => outcome[r].error = "MissingInput"
    /\ (pc[r] = "failed" /\ outcome[r].error \in NodeErrors) =>
         /\ resolved[r] = None
         /\ outcome[r] = [status |-> "error", image |-> NoImage,
                          error |-> outcome[r].error]
         /\ Len(log[r]) = 2 * idx[r] - 1
         /\ log[r][Len(log[r])].ev = "run"
         /\ log[r][Len(log[r])].node = idx[r]
         /\ pending[r] = NoPending

\* a run failed at its last node after earlier results were merged
C5_Witness ==
  \E r \in Runs :
    /\ pc[r] = "failed"
    /\ outcome[r].error \in NodeErrors
    /\ idx[r] = MaxNodes
    /\ states[r] # InitialState(r)

\* the state a call that runs alone resolves with when none of its nodes fails
RECURSIVE RunAlone(_, _, _, _, _)
RECURSIVE AloneNext(_, _, _, _)
AloneNext(ns, i, st, out) ==
  IF out.status = "error" THEN st
  ELSE RunAlone(ns, i + 1, mergeNodeState(st, out.result), out.rng, out.stash)

RunAlone(ns, i, st, rng, stash) ==
  IF i > Len(ns) THEN st
  ELSE AloneNext(ns, i, st, RunNode(ns[i], st, rng, stash))

OwnSeed(r) == opts[r].seed # None /\ opts[r].random = None

\* C6: a runState call given an explicit seed and no shared random object
\* resolves, however it was interleaved with the other call, with the state
\* the same call resolves with when it runs alone.
C6_RunsIndependent ==
  \A r \in Runs :
    (resolved[r] # None /\ OwnSeed(r)) =>
      resolved[r][1] = RunAlone(nodes, 1, InitialState(r),
                                createRandom(opts[r].seed, 0), None)

UsesRandom == \E i \in 1 .. Len(nodes) : nodes[i].kind \in {"noise", "value-noise"}

\* two overlapping calls with their own seeds and inputs both resolved
C6_Witness ==
  /\ overlapped
  /\ UsesRandom
  /\ \A r \in Runs : resolved[r] # None /\ OwnSeed(r)
  /\ opts[1].seed # opts[2].seed
  /\ inputs[1] # inputs[2]
  /\ resolved[1][1] # resolved[2][1]

NoExternalIo == \A i \in 1 .. Len(nodes) : nodes[i].kind # "resize"

\* C7: on a pipeline without a node that does external I/O, two runs that
\* returned, given equal inputs and the same explicit seed, returned buffers
\* with the same width, height, format and data.
C7_SameSeedSameBuffer ==
  (/\ NoExternalIo
   /\ \A r \in Runs : pc[r] = "done" /\ OwnSeed(r)
   /\ opts[1].seed = opts[2].seed
   /\ inputs[1] = inputs[2])
    => outcome[1].image = outcome[2].image

\* the pipeline [noise, invert] returned twice for one seed and one input
C7_Witness ==
  /\ nodes = << createNoiseNode, createInvertNode >>
  /\ \A r \in Runs : pc[r] = "done" /\ OwnSeed(r)
  /\ opts[1].seed = opts[2].seed
  /\ inputs[1] = inputs[2]
  /\ inputs[1].type = "buffer"
  /\ outcome[1].image.data # inputs[1].image.data

(***************************************************************************)
(* Claims about ImageBuffer.                                               *)
(***************************************************************************)
\* C8: every ImageBuffer that exists has data.length = width * height *
\* channels(format) and still has the width, height, format and data length it
\* was made with, and a constructor call given an array of another length
\* throws and makes nothing.
C8_DataLengthInvariant ==
  /\ \A i \in 1 .. Len(heap) :
       /\ Len(heap[i].data)
            = heap[i].width * heap[i].height * FORMAT_CHANNELS(heap[i].format)
       /\ Shape(heap[i]) = made[i]
  /\ Len(made) = Len(heap)
  /\ (last.op = "new"
      /\ last.shape.length
           # last.shape.width * last.shape.height * FORMAT_CHANNELS(last.shape.format))
       => (last.error = "SizeMismatch" /\ last.target = 0)

\* a buffer of another format, with pixels, has just been made by toFormat
C8_Witness ==
  /\ last.op = "toFormat"
  /\ Len(heap) = 2
  /\ heap[2].format # heap[1].format
  /\ Len(heap[2].data) > 0
  /\ Len(heap[2].data) # Len(heap[1].data)

Near(a, b) == a - b <= 1 /\ b - a <= 1

\* C9: after setPixel(x, y, p) inside the image, getPixel(x, y) is p on rgba8,
\* p with alpha 255 on rgb8, and within 1 of p in every channel on rgba32f.
C9_SetThenGet ==
  (last.op = "setPixel" /\ last.error = "none") =>
    LET image == heap[last.target]
        p     == last.pixel
        q     == getPixel(image, last.x, last.y)
    IN  CASE image.format = "rgba8"   -> q = p
          [] image.format = "rgb8"    -> q = [p EXCEPT !.a = ByteMax]
          [] image.format = "rgba32f" ->
               /\ Near(q.r, p.r) /\ Near(q.g, p.g)
               /\ Near(q.b, p.b) /\ Near(q.a, p.a)
          [] OTHER -> TRUE

RoundTrip(image, g) == toFormat(toFormat(image, g), image.format)

\* C10: for every buffer A of format f and every format g, with
\* B = A.toFormat(g).toFormat(f), B.toFormat(g).toFormat(f) has the pixels of B.
C10_RoundTripStable ==
  \A i \in 1 .. Len(heap) : \A g \in Formats :
    LET B == RoundTrip(heap[i], g)
    IN  RoundTrip(B, g) = B

\* a buffer that its first round trip changes
C10_Witness ==
  \E i \in 1 .. Len(heap) : \E g \in Formats :
    /\ g # heap[i].format
    /\ Len(heap[i].data) > 0
    /\ RoundTrip(heap[i], g).data # heap[i].data
    /\ last.op = "toFormat" /\ last.target = i

(***************************************************************************)
(* Claims about the built-in nodes.                                        *)
(***************************************************************************)
\* C11: no node run changes the storage of a buffer that existed before it
\* ran: the caller's buffer and every buffer an earlier node returned or made
\* stay as they were, and the object a node returns is one it made itself.
C11_NodesLeaveInputs ==
  [][/\ \A k \in 1 .. Len(heap) : heap'[k] = heap[k]
     /\ last'.target > Len(heap)]_vars

\* two nodes ran, the second a node that clones its input and writes to the
\* clone, and its output differs from the buffer it was given
C11_Witness ==
  /\ ops = MaxApply
  /\ last.op \in {"fill", "rect", "circle", "value-noise"}
  /\ Len(heap) >= 3
  /\ \E k \in 2 .. Len(heap) - 1 :
       /\ Shape(heap[k]) = Shape(heap[last.target])
       /\ heap[k] # heap[last.target]

\* the two buffers have the same size and format, and getPixel returns the
\* same pixel from both at every position
SamePixels(a, b) ==
  /\ a.width = b.width /\ a.height = b.height /\ a.format = b.format
  /\ \A x \in 0 .. a.width - 1, y \in 0 .. a.height - 1 :
       getPixel(a, x, y) = getPixel(b, x, y)

\* C12: whenever the convolution node of the identity kernel [[1]] runs, the
\* buffer it returns has the size and format of the buffer it was given and
\* the same pixel at every position.
C12_IdentityKernel ==
  [][last'.op = "identity" => SamePixels(heap[last.target], heap'[last'.target])]_vars

\* the kernel is a non-empty odd square
OddSquare(kernel) ==
  /\ Len(kernel) > 0
  /\ Len(kernel) % 2 = 1
  /\ \A row \in 1 .. Len(kernel) : Len(kernel[row]) = Len(kernel)

\* C13: createConvolutionNode fails with InvalidKernel for every kernel that
\* is not a non-empty odd square (and for no other), and a Gaussian blur whose
\* size argument gives a kernel that is not a non-empty odd square fails with
\* InvalidKernel (and no other does).
C13_InvalidKernelRejected ==
  (last.result # None /\ last.op \in {"createConvolutionNode", "gaussian-blur"}) =>
    /\ last.op = "createConvolutionNode" =>
         (last.result[1].ok <=> OddSquare(last.kernel))
    /\ last.op = "gaussian-blur" =>
         (last.result[1].ok <=> OddSquare(buildGaussianKernel(last.size)))
    /\ ~last.result[1].ok => last.result[1].error = "InvalidKernel"

\* the two rgba8 buffers have the same size and each byte of one is within 1
\* of the byte of the other
Within1(a, b) ==
  /\ a.width = b.width /\ a.height = b.height /\ a.format = b.format
  /\ \A j \in 1 .. Len(a.data) :
       a.data[j] - b.data[j] \in {-1, 0, 1}

\* the full convolution with the kernel buildGaussianKernel(size, 2)
FullGaussian(image, size) ==
  Convolve(image, createConvolutionNode("gaussian", buildGaussianKernel(size), TRUE).node)

\* C14: on every rgba8 buffer and for every size whose kernel is valid, each
\* byte the separable Gaussian blur returns is within 1 of the byte the full
\* convolution with buildGaussianKernel(size, 2) returns.
C14_SeparableMatchesFull ==
  (/\ last.result # None
   /\ last.op = "gaussian-blur"
   /\ last.image.format = "rgba8"
   /\ OddSquare(buildGaussianKernel(last.size)))
    => Within1(last.result[1].image, FullGaussian(last.image, last.size))

\* a blur of size MaxBlurSize returned a buffer that is neither its input nor
\* byte for byte the result of the full convolution
C14_Witness ==
  /\ last.result # None
  /\ last.op = "gaussian-blur"
  /\ last.image.format = "rgba8"
  /\ last.size = MaxBlurSize
  /\ last.result[1].image # last.image
  /\ last.result[1].image # FullGaussian(last.image, last.size)

\* C15: every value n / 4294967295 that hash2D returns is at least 0 and
\* less than 1: the numerator n is a 32-bit word below 4294967295.
C15_HashBelowOne ==
  (last.result # None /\ last.op = "hash2D") =>
    /\ last.result[1][1] \in 0 .. Half - 1
    /\ last.result[1][2] \in 0 .. Half - 1
    /\ last.result[1] # << Half - 1, Half - 1 >>

\* C16: every pixel (x, y) of the buffer the value-noise node returns has
\* r = g = b = round(0 + (255 - 0) * v) for the noise value v of (x, y) under
\* the seed of the context, and alpha 255.
C16_NoiseIsGray ==
  last.op = "value-noise" =>
    \A x \in 0 .. heap[last.target].width - 1, y \in 0 .. heap[last.target].height - 1 :
      getPixel(heap[last.target], x, y)
        = GrayPixel(MapUnit(fractalValueNoise(x, y, ctx[1].stash[1])))

(***************************************************************************)
(* Claims about the stroke and selection masks.                            *)
(***************************************************************************)
\* the alpha of pixel (x, y) of an rgba8 buffer
AlphaAt(image, x, y) == image.data[(y * image.width + x) * 4 + 4]

\* the pixels next to (x, y) inside the image under the connectivity
NeighboursOf(image, x, y, connectivity) ==
  { q \in (0 .. image.width - 1) \X (0 .. image.height - 1) :
      /\ q # << x, y >>
      /\ q[1] - x \in {-1, 0, 1}
      /\ q[2] - y \in {-1, 0, 1}
      /\ connectivity = 4 => (q[1] = x \/ q[2] = y) }

\* the pixels a mask marks
Marked(image, mask) ==
  { q \in (0 .. image.width - 1) \X (0 .. image.height - 1) :
      mask[q[2] * image.width + q[1] + 1] = 1 }

\* C17: with thickness 1 the alpha-stroke mask marks exactly the pixels whose
\* alpha is below the threshold and that have a neighbour, inside the image
\* and under the connectivity asked, with alpha at or above it; so it marks
\* nothing on a buffer without a transparent pixel.
C17_BoundaryMask ==
  (last.result # None /\ last.op = "computeAlphaStrokeMask" /\ last.thickness = 1) =>
    /\ Len(last.result[1]) = last.image.width * last.image.height
    /\ \A j \in 1 .. Len(last.result[1]) : last.result[1][j] \in {0, 1}
    /\ Marked(last.image, last.result[1])
         = { q \in (0 .. last.image.width - 1) \X (0 .. last.image.height - 1) :
               /\ AlphaAt(last.image, q[1], q[2]) < last.alphaThreshold
               /\ \E n \in NeighboursOf(last.image, q[1], q[2], last.connectivity) :
                    AlphaAt(last.image, n[1], n[2]) >= last.alphaThreshold }
    /\ (\A q \in (0 .. last.image.width - 1) \X (0 .. last.image.height - 1) :
          AlphaAt(last.image, q[1], q[2]) >= last.alphaThreshold)
         => Marked(last.image, last.result[1]) = {}
    /\ \A p \in (0 .. last.image.width - 1) \X (0 .. last.image.height - 1) :
         (/\ AlphaAt(last.image, p[1], p[2]) < last.alphaThreshold
          /\ NeighboursOf(last.image, p[1], p[2], last.connectivity) # {}
          /\ \A q \in (0 .. last.image.width - 1) \X (0 .. last.image.height - 1) :
               q # p => AlphaAt(last.image, q[1], q[2]) >= last.alphaThreshold)
           => Marked(last.image, last.result[1]) = {p}

\* a thickness-1 mask under connectivity 4 that marks exactly one pixel, the
\* only transparent one, which has a diagonal neighbour
C17_Witness ==
  /\ last.result # None
  /\ last.op = "computeAlphaStrokeMask"
  /\ last.thickness = 1
  /\ last.connectivity = 4
  /\ \E q \in Marked(last.image, last.result[1]) :
       /\ Marked(last.image, last.result[1]) = {q}
       /\ \A p \in (0 .. last.image.width - 1) \X (0 .. last.image.height - 1) :
            p # q => AlphaAt(last.image, p[1], p[2]) >= last.alphaThreshold
       /\ Cardinality(NeighboursOf(last.image, q[1], q[2], 8)) = 8

\* C18: the alpha-stroke mask of any thickness marks no pixel whose alpha is at
\* or above the threshold.
C18_StrokeAvoidsSolid ==
  (last.result # None /\ last.op = "computeAlphaStrokeMask") =>
    \A q \in Marked(last.image, last.result[1]) :
      AlphaAt(last.image, q[1], q[2]) < last.alphaThreshold

\* a mask thicker than 1 that marks a pixel without a solid neighbour, while a
\* transparent pixel stays unmarked
C18_Witness ==
  /\ last.result # None
  /\ last.op = "computeAlphaStrokeMask"
  /\ last.thickness > 1
  /\ \E q \in Marked(last.image, last.result[1]) :
       \A n \in NeighboursOf(last.image, q[1], q[2], last.connectivity) :
         AlphaAt(last.image, n[1], n[2]) < last.alphaThreshold
  /\ \E q \in (0 .. last.image.width - 1) \X (0 .. last.image.height - 1) :
       /\ AlphaAt(last.image, q[1], q[2]) < last.alphaThreshold
       /\ q \notin Marked(last.image, last.result[1])

\* pixel q lies in the square of a drawn call
InSquare(call, q) ==
  /\ q[1] >= call.left /\ q[1] < call.left + call.size
  /\ q[2] >= call.top /\ q[2] < call.top + call.size

\* C19: on a uniform background with one axis-aligned square of a colour at
\* least the threshold away from it, the contrast shape mask marks every pixel
\* of the square and no pixel outside the square.
C19_ShapeFillsSquare ==
  (last.result # None /\ last.op = "contrast-shape") =>
    Marked(last.image, last.result[1])
      = { q \in (0 .. last.image.width - 1) \X (0 .. last.image.height - 1) :
            InSquare(last, q) }

\* the part that holds: a square that stays clear of the left border of the
\* buffer is filled entirely
C19_SquareCovered ==
  (last.result # None /\ last.op = "contrast-shape" /\ last.left > 0) =>
    \A q \in (0 .. last.image.width - 1) \X (0 .. last.image.height - 1) :
      InSquare(last, q) => q \in Marked(last.image, last.result[1])

\* the pixels of a buffer
PixelsOf(image) == (0 .. image.width - 1) \X (0 .. image.height - 1)

\* pixel q lies in the rectangle of a drawn call
InRect(call, q) ==
  /\ q[1] >= call.x /\ q[1] < call.x + call.width
  /\ q[2] >= call.y /\ q[2] < call.y + call.height

\* the pixels of the output of a drawn call that read as the colour
Coloured(call, color) ==
  { q \in PixelsOf(call.image) : getPixel(call.result[1], q[1], q[2]) = toRgba(color) }

\* C20: a fill node of colour c masked by a rectangle inside the buffer, in
\* clip mode with outside colour o, returns a buffer whose pixels inside the
\* rectangle, width * height of them, have colour c and whose other pixels,
\* W * H - width * height of them, have colour o.
C20_ClipFillCounts ==
  (last.result # None /\ last.op = "masked-fill") =>
    /\ Coloured(last, last.color) = { q \in PixelsOf(last.image) : InRect(last, q) }
    /\ Coloured(last, last.outside) = { q \in PixelsOf(last.image) : ~InRect(last, q) }
    /\ Cardinality(Coloured(last, last.color)) = last.width * last.height
    /\ Cardinality(Coloured(last, last.outside))
         = last.image.width * last.image.height - last.width * last.height

\* no channel of the colour, as toRgba gives it, is 1
WithoutOnes(color) ==
  /\ toRgba(color).r # 1 /\ toRgba(color).g # 1
  /\ toRgba(color).b # 1 /\ toRgba(color).a # 1

\* the part that holds: the counts are as stated when neither colour has a
\* channel of value 1
C20_CountsWithoutOnes ==
  (/\ last.result # None /\ last.op = "masked-fill"
   /\ WithoutOnes(last.color) /\ WithoutOnes(last.outside)) =>
    /\ Coloured(last, last.color) = { q \in PixelsOf(last.image) : InRect(last, q) }
    /\ Coloured(last, last.outside) = { q \in PixelsOf(last.image) : ~InRect(last, q) }
    /\ Cardinality(Coloured(last, last.color)) = last.width * last.height

(***************************************************************************)
(* Claims about masked nodes, node scheduling and the remaining functions. *)
(***************************************************************************)
\* C21: in preserve mode a masked node returns a buffer whose selected pixels
\* equal the pixels of the wrapped node's result on the unmasked input and
\* whose other pixels equal the pixels of the input.
C21_PreserveMerges ==
  (last.result # None /\ last.op = "masked-preserve") =>
    \A q \in PixelsOf(last.image) :
      getPixel(last.result[1].image, q[1], q[2])
        = IF InRect(last, q) THEN getPixel(last.result[1].inner, q[1], q[2])
          ELSE getPixel(last.image, q[1], q[2])

\* the part that holds: pixels outside the selection are those of the input,
\* and a selected pixel is the result's when no channel of the result's pixel
\* is 1
C21_PreserveWithoutOnes ==
  (last.result # None /\ last.op = "masked-preserve") =>
    \A q \in PixelsOf(last.image) :
      \/ getPixel(last.result[1].image, q[1], q[2])
           = IF InRect(last, q) THEN getPixel(last.result[1].inner, q[1], q[2])
             ELSE getPixel(last.image, q[1], q[2])
      \/ /\ InRect(last, q)
         /\ \E ch \in {"r", "g", "b", "a"} :
              getPixel(last.result[1].inner, q[1], q[2])[ch] = 1

\* the calls of run 1 that have started and not returned
OpenActs == { k \in 1 .. Len(acts) : acts[k].at # "returned" }

\* call a was made, directly or not, by call b
RECURSIVE MadeBy(_, _)
MadeBy(a, b) ==
  /\ acts[a].parent # 0
  /\ (acts[a].parent = b \/ MadeBy(acts[a].parent, b))

\* C22: within a run no two node executions overlap: of two calls of node run
\* functions that have started and not returned, one was made by the other
\* (a mask-map node awaiting the node it runs as a source).
C22_NoOverlap ==
  \A a \in OpenActs, b \in OpenActs : a = b \/ MadeBy(a, b) \/ MadeBy(b, a)

\* the part that holds: the nodes of the pipeline itself run one after the
\* other, and the node of the mask has returned before an entry's node starts
C22_LoopInSequence ==
  /\ Cardinality({ k \in OpenActs : acts[k].parent = 0 }) <= 1
  /\ \A a \in OpenActs, b \in OpenActs :
       (acts[a].parent # 0 /\ acts[a].slot = 1) => (b = a \/ b = acts[a].parent)

\* the boundary seeds of a drawn call: non-solid pixels with a solid neighbour
SeedPixels(call) ==
  { q \in PixelsOf(call.image) :
      /\ AlphaAt(call.image, q[1], q[2]) < call.alphaThreshold
      /\ \E n \in NeighboursOf(call.image, q[1], q[2], call.connectivity) :
           AlphaAt(call.image, n[1], n[2]) >= call.alphaThreshold }

\* the pixels of a set and the non-solid pixels one step from it
OneStepFrom(call, near) ==
  near \cup { q \in PixelsOf(call.image) :
                /\ AlphaAt(call.image, q[1], q[2]) < call.alphaThreshold
                /\ NeighboursOf(call.image, q[1], q[2], call.connectivity) \cap near # {} }

\* the pixels whose shortest path to a seed through non-solid pixels has at
\* most d steps
RECURSIVE WithinSteps(_, _)
WithinSteps(call, d) ==
  IF d = 0 THEN SeedPixels(call) ELSE OneStepFrom(call, WithinSteps(call, d - 1))

\* C23: for thickness t > 1 the alpha-stroke mask marks exactly the non-solid
\* pixels whose shortest path to a boundary seed, through non-solid pixels in
\* steps of the connectivity, has at most t - 1 steps.
C23_StrokeDepth ==
  (last.result # None /\ last.op = "computeAlphaStrokeMask" /\ last.thickness > 1) =>
    Marked(last.image, last.result[1]) = WithinSteps(last, last.thickness - 1)

\* a stroke of thickness 3 that marks a pixel two steps from the seeds and
\* leaves a non-solid pixel three steps from them unmarked
C23_Witness ==
  /\ last.result # None
  /\ last.op = "computeAlphaStrokeMask"
  /\ last.thickness = 3
  /\ Marked(last.image, last.result[1]) \ WithinSteps(last, 1) # {}
  /\ WithinSteps(last, 3) \ Marked(last.image, last.result[1]) # {}

\* the squared RGB distance between pixels p and q of a buffer
Distance2(image, p, q) ==
  (getPixel(image, p[1], p[2]).r - getPixel(image, q[1], q[2]).r)
    * (getPixel(image, p[1], p[2]).r - getPixel(image, q[1], q[2]).r)
  + (getPixel(image, p[1], p[2]).g - getPixel(image, q[1], q[2]).g)
      * (getPixel(image, p[1], p[2]).g - getPixel(image, q[1], q[2]).g)
  + (getPixel(image, p[1], p[2]).b - getPixel(image, q[1], q[2]).b)
      * (getPixel(image, p[1], p[2]).b - getPixel(image, q[1], q[2]).b)

\* the neighbours of p, under the connectivity of a drawn call, that contrast
\* with p
Contrasting(call, p) ==
  { q \in NeighboursOf(call.image, p[1], p[2], call.connectivity) :
      Distance2(call.image, p, q) >= call.threshold * call.threshold }

\* C24: the contrast edge mask has one entry for each pixel and marks pixel p
\* exactly when a neighbour of p inside the buffer, under the connectivity, is
\* at squared RGB distance threshold * threshold or more; so both pixels of a
\* contrasting pair are marked.
C24_EdgeMask ==
  (last.result # None /\ last.op = "computeContrastEdgeMask") =>
    /\ Len(last.result[1]) = last.image.width * last.image.height
    /\ Marked(last.image, last.result[1])
         = { p \in PixelsOf(last.image) : Contrasting(last, p) # {} }
    /\ \A p \in PixelsOf(last.image) :
         \A q \in Contrasting(last, p) :
           {p, q} \subseteq Marked(last.image, last.result[1])

\* under connectivity 8 a pixel is marked whose only contrasting neighbour is
\* the one up and to the left of it, and another pixel is not marked
C24_Witness ==
  /\ last.result # None
  /\ last.op = "computeContrastEdgeMask"
  /\ last.connectivity = 8
  /\ \E p \in Marked(last.image, last.result[1]) :
       Contrasting(last, p) = {<< p[1] - 1, p[2] - 1 >>}
  /\ Marked(last.image, last.result[1]) # PixelsOf(last.image)

\* a coordinate moved to the nearest one inside 0 .. extent - 1
ToEdge(at, extent) == IF at < 0 THEN 0 ELSE IF at > extent - 1 THEN extent - 1 ELSE at

\* the weighted sums over the first n cells of the kernel, row by row, of the
\* pixels at the clamped coordinates around (x, y)
RECURSIVE EdgeSum(_, _, _, _, _)
EdgeSum(image, kernel, x, y, n) ==
  IF n = 0 THEN [r |-> 0, g |-> 0, b |-> 0, a |-> 0]
  ELSE AddTap(EdgeSum(image, kernel, x, y, n - 1),
              getPixel(image,
                       ToEdge(x + ((n - 1) % Len(kernel)) - (Len(kernel) \div 2),
                              image.width),
                       ToEdge(y + ((n - 1) \div Len(kernel)) - (Len(kernel) \div 2),
                              image.height)),
              kernel[((n - 1) \div Len(kernel)) + 1][((n - 1) % Len(kernel)) + 1])

\* the pixel stored for the sums: clamped bytes on rgba8, setPixel elsewhere
StoredFor(image, node, x, y, sum) ==
  IF image.format = "rgba8"
  THEN [r |-> clampByteOver(sum.r, node.divisor), g |-> clampByteOver(sum.g, node.divisor),
        b |-> clampByteOver(sum.b, node.divisor), a |-> clampByteOver(sum.a, node.divisor)]
  ELSE getPixel(setPixel(ImageBuffer(image.width, image.height, image.format, None).buf,
                         x, y, sum), x, y)

\* C25: every output pixel of a convolution is made of the samples at
\* (clamp(x + kx - r, 0, w - 1), clamp(y + ky - r, 0, h - 1)), r = floor(size / 2),
\* on the rgba8 path and on the generic path: no sample is read outside the
\* buffer.
C25_ClampToEdge ==
  (last.result # None /\ last.op = "convolve") =>
    /\ Shape(last.result[1]) = Shape(last.image)
    /\ \A q \in PixelsOf(last.image) :
         getPixel(last.result[1], q[1], q[2])
           = StoredFor(last.image, last.node, q[1], q[2],
                       EdgeSum(last.image, last.node.kernel, q[1], q[2],
                               Len(last.node.kernel) * Len(last.node.kernel)))

\* a 3 x 3 kernel applied on the generic path to a buffer one pixel high, whose
\* rows above and below are the row itself, and the output differs from the
\* input
C25_Witness ==
  /\ last.result # None
  /\ last.op = "convolve"
  /\ Len(last.node.kernel) = 3
  /\ last.result[1] # last.image
  /\ last.image.format # "rgba8"
  /\ last.image.height = 1

\* Math.round(size / 2): the halves are rounded up
RoundHalf(size) == (size + 1) \div 2

\* C26 as stated: for every size the kernel of the separable blur has
\* 2 * round(size / 2) + 1 weights
C26_RoundedDimension ==
  (last.op = "blur-kernel" /\ last.result # None)
    => Len(last.result[1]) = 2 * RoundHalf(last.size) + 1

\* C26 as amended: for every size of at least 0 the kernel of the separable
\* blur has the odd number 2 * floor(size / 2) + 1 of weights, the size itself
\* when it is odd and the size plus one when it is even
C26_OddDimension ==
  (last.op = "blur-kernel" /\ last.result # None /\ last.size >= 0)
    => /\ Len(last.result[1]) = 2 * (last.size \div 2) + 1
       /\ Len(last.result[1]) % 2 = 1
       /\ Len(last.result[1]) = IF last.size % 2 = 1 THEN last.size
                                   ELSE last.size + 1

\* the default size 9 gave a kernel of 9 weights
C26_Witness ==
  /\ last.op = "blur-kernel"
  /\ last.size = 9
  /\ last.result # None
  /\ Len(last.result[1]) = 9

\* in this step run r called a lattice-noise node, whose handler ran
NoiseCalled(r) ==
  /\ Len(log'[r]) > Len(log[r])
  /\ log'[r][Len(log'[r])].ev = "run"
  /\ nodes[log'[r][Len(log'[r])].node].kind = "value-noise"
  /\ pending'[r].status = "ok"

\* the image a lattice-noise node returns for the seed it used
NoiseOf(r, seed) ==
  ValueNoiseFrom(clone(getImage(states'[r], DEFAULT_IMAGE_KEY).image), seed, 0)

\* the seed a call would draw from the random object of run r
DrawnSeed(r) == SeedOf(RandomNext(rngs[ctx[r].random]))

\* C27 as stated: no noise node can opt in to the cached seed, so every call
\* of a noise node draws a seed of its own from the random object of the run
C27_OwnSeeds ==
  [][\A r \in Runs :
       NoiseCalled(r) =>
         /\ rngs'[ctx[r].random] = DrawnSeed(r).rng
         /\ pending'[r].result.images[DEFAULT_IMAGE_KEY] = NoiseOf(r, DrawnSeed(r).seed)]_vars

\* C27 as amended: in one run the first noise node called draws the seed from
\* the random object of the run and caches it in the stash, and every later
\* noise node uses the cached seed and draws nothing
C27_CachedSeed ==
  [][\A r \in Runs :
       NoiseCalled(r) =>
         IF ctx[r].stash = None
         THEN /\ rngs'[ctx[r].random] = DrawnSeed(r).rng
              /\ ctx'[r].stash = Some(DrawnSeed(r).seed)
              /\ pending'[r].result.images[DEFAULT_IMAGE_KEY]
                   = NoiseOf(r, DrawnSeed(r).seed)
         ELSE /\ rngs'[ctx[r].random] = rngs[ctx[r].random]
              /\ ctx'[r].stash = ctx[r].stash
              /\ pending'[r].result.images[DEFAULT_IMAGE_KEY]
                   = NoiseOf(r, ctx[r].stash[1])]_vars

\* the second of two noise nodes returned the image the first returned
C27_Witness ==
  \E r \in Runs :
    /\ Len(nodes) = 2
    /\ nodes[1].kind = "value-noise"
    /\ nodes[2].kind = "value-noise"
    /\ pc[r] = "node"
    /\ idx[r] = 2
    /\ pending[r].status = "ok"
    /\ ctx[r].stash # None
    /\ \E k \in 1 .. Len(log[r]) :
         /\ log[r][k].ev = "merge"
         /\ log[r][k].node = 1
         /\ log[r][k].result.images[DEFAULT_IMAGE_KEY]
              = pending[r].result.images[DEFAULT_IMAGE_KEY]

\* the threshold clamped to 0..255
ClampedThreshold == clamp(last.threshold, 0, ByteMax)

C29_SnapshotsKept ==
  last.op # "none" =>
    /\ Len(made) = Len(heap)
    /\ \A k \in 1 .. Len(heap) : heap[k] = made[k]
    /\ \A k \in 1 .. Len(last.passed) : heap[last.passed[k]] = made[last.passed[k]]

\* a run on the caller's NodeState object ended after two merges that changed
\* the entries: the states passed to both nodes and the caller's object differ
\* from the state returned
C29_Witness ==
  /\ pc[1] = "resolved"
  /\ inputs[1].type = "state"
  /\ Len(nodes) = 2
  /\ Len(last.passed) >= 2
  /\ heap[1] = StateInput.state
  /\ \A k \in 1 .. Len(last.passed) : heap[last.passed[k]] # heap[last.state]
  /\ heap[last.passed[1]] # heap[last.passed[Len(last.passed)]]

\* C30: a run that was in flight when add was last called executes no node
\* past the end the list had before that call: the nodes added are not run by
\* it.
C30_AddLeavesRunAlone ==
  last.op = "add" =>
    \A r \in last.inflight :
      \A k \in 1 .. Len(log[r]) : log[r][k].node <= last.length

====
